---- MODULE Spec2Model ----
(***************************************************************************)
(* VibeWeave core: the Vibe store (VibeStore.ts), the Vibe processor       *)
(* (core/VibeProcessor.ts) and the request handlers (api/auraRoutes.ts).   *)
(*                                                                         *)
(* JavaScript runs every handler to completion on one thread, so each      *)
(* handler, each background call (decay, expiry sweep) and each clock      *)
(* movement is one atomic action.                                          *)
(*                                                                         *)
(* Time is counted in clock units of 30 minutes, so that "exactly one      *)
(* hour", "more than one hour" and "one and a half hours" are all          *)
(* distinguishable.  Resonance scores are JavaScript numbers: binary64     *)
(* values, every operation rounded to nearest with ties to even.           *)
(***************************************************************************)
EXTENDS Integers, Sequences, FiniteSets, TLC

VARIABLES
    vibes,   \* VibeStore.vibes: the Map, as the sequence of its values in insertion order
    now,     \* the reading of Date.now()
    nextId,  \* number of ids uuidv4() has handed out so far, plus one
    resonated, \* number of resonances recorded so far
    res      \* the response being delivered, idle when there is none

vars == <<vibes, now, nextId, resonated, res>>

---------------------------------------------------------------------------
(* Bounds *)

MaxVibes == 3       \* ids uuidv4() hands out in one run
MaxLimit == 3       \* largest stream limit requested
MaxResonances == 2  \* resonances recorded in one run
MaxFractionBits == 52    \* decayed scores are followed down to multiples of 2^-MaxFractionBits

(* Program constants, in clock units *)

HOUR_MS == 2                        \* 1000 * 60 * 60 ms = one hour = 2 units
VIBE_LIFESPAN_MS == 48 * HOUR_MS    \* 48 * 60 * 60 * 1000 ms

(* The clock readings at which something is called: start-up, exactly one *)
(* hour later, and the moment the Vibes of start-up expire.                *)
Instants == {0, HOUR_MS, VIBE_LIFESPAN_MS}

IdUniverse == 1..MaxVibes

undefined == [undefined |-> TRUE]

---------------------------------------------------------------------------
(* JavaScript numbers: IEEE-754 binary64, round to nearest, ties to even *)

LimbBits == 12           \* digits of the big naturals are LimbBits wide
Base == 2^LimbBits
SignificandBits == 53    \* binary64: 52 stored bits and the hidden one

(* naturals beyond 2^31: little-endian digits in base Base, no leading zero digit *)

RECURSIVE BigStrip(_)
BigStrip(a) ==
    IF a # <<>> /\ a[Len(a)] = 0 THEN BigStrip(SubSeq(a, 1, Len(a) - 1)) ELSE a

RECURSIVE BigCarry(_, _)
BigCarry(cols, carry) ==
    \* the digits of carry + the sum of cols[k] * Base^(k-1)
    IF cols = <<>>
    THEN IF carry = 0 THEN <<>> ELSE <<carry % Base>> \o BigCarry(<<>>, carry \div Base)
    ELSE LET v == cols[1] + carry
         IN  <<v % Base>> \o BigCarry(Tail(cols), v \div Base)

BigOfInt(n) == BigStrip(BigCarry(<<n>>, 0))

RECURSIVE BigToInt(_)
BigToInt(a) == IF a = <<>> THEN 0 ELSE a[1] + Base * BigToInt(Tail(a))

Digit(a, k) == IF k >= 1 /\ k <= Len(a) THEN a[k] ELSE 0

BigAdd(a, b) ==
    LET n == IF Len(a) > Len(b) THEN Len(a) ELSE Len(b)
    IN  BigStrip(BigCarry([k \in 1..n |-> Digit(a, k) + Digit(b, k)], 0))

RECURSIVE BigBorrow(_, _, _, _)
BigBorrow(a, b, k, borrow) ==
    IF k > Len(a) THEN <<>>
    ELSE LET v == a[k] - Digit(b, k) - borrow
         IN  IF v < 0 THEN <<v + Base>> \o BigBorrow(a, b, k + 1, 1)
                      ELSE <<v>> \o BigBorrow(a, b, k + 1, 0)

BigSub(a, b) == BigStrip(BigBorrow(a, b, 1, 0))    \* for a >= b

RECURSIVE BigColumn(_, _, _, _)
BigColumn(a, b, k, i) ==
    IF i > k THEN 0 ELSE Digit(a, i) * Digit(b, k + 1 - i) + BigColumn(a, b, k, i + 1)

BigMul(a, b) ==
    IF a = <<>> \/ b = <<>> THEN <<>>
    ELSE BigStrip(BigCarry([k \in 1..(Len(a) + Len(b) - 1) |-> BigColumn(a, b, k, 1)], 0))

RECURSIVE BigCmpFrom(_, _, _)
BigCmpFrom(a, b, k) ==
    IF k = 0 THEN 0
    ELSE IF a[k] < b[k] THEN -1
    ELSE IF a[k] > b[k] THEN 1
    ELSE BigCmpFrom(a, b, k - 1)

BigCmp(a, b) ==
    IF Len(a) < Len(b) THEN -1
    ELSE IF Len(a) > Len(b) THEN 1
    ELSE BigCmpFrom(a, b, Len(a))

RECURSIVE BigDivFrom(_, _, _, _)
BigDivFrom(a, d, k, rem) ==
    \* long division of the digits a[k], ..., a[1] by d < 2^19, rem carried in
    IF k = 0 THEN [q |-> <<>>, r |-> rem]
    ELSE LET cur == rem * Base + a[k]
             rest == BigDivFrom(a, d, k - 1, cur % d)
         IN  [q |-> Append(rest.q, cur \div d), r |-> rest.r]

BigDivMod(a, d) ==
    LET dm == BigDivFrom(a, d, Len(a), 0)
    IN  [q |-> BigStrip(dm.q), r |-> dm.r]

BigShl(a, s) ==
    \* a * 2^s
    IF a = <<>> THEN <<>>
    ELSE [k \in 1..(s \div LimbBits) |-> 0]
         \o BigStrip(BigCarry([k \in 1..Len(a) |-> a[k] * 2^(s % LimbBits)], 0))

BigShr(a, s) ==
    \* a \div 2^s
    IF s \div LimbBits >= Len(a) THEN <<>>
    ELSE BigDivMod(SubSeq(a, s \div LimbBits + 1, Len(a)), 2^(s % LimbBits)).q

BigBitLen(a) ==
    IF a = <<>> THEN 0
    ELSE (Len(a) - 1) * LimbBits
         + (CHOOSE n \in 1..LimbBits : 2^(n - 1) <= a[Len(a)] /\ a[Len(a)] < 2^n)

(* a number is (-1)^neg * m * 2^e with m odd, or zero; subnormals, infinities *)
(* and NaN are out of the range the scores move in                           *)

Zero == [neg |-> FALSE, m |-> <<>>, e |-> 0]

RECURSIVE Canon(_, _, _)
Canon(neg, m, e) ==
    IF m = <<>> THEN Zero
    ELSE IF m[1] = 0 THEN Canon(neg, Tail(m), e + LimbBits)
    ELSE IF m[1] % 2 = 0 THEN Canon(neg, BigDivMod(m, 2).q, e + 1)
    ELSE [neg |-> neg, m |-> m, e |-> e]

FRound(neg, m, e) ==
    \* m * 2^e rounded to SignificandBits significant bits
    LET len == BigBitLen(m)
    IN  IF len <= SignificandBits THEN Canon(neg, m, e)
        ELSE LET s == len - SignificandBits
                 q == BigShr(m, s)
                 r == BigSub(m, BigShl(q, s))
                 c == BigCmp(r, BigShl(<<1>>, s - 1))
                 up == c = 1 \/ (c = 0 /\ q[1] % 2 = 1)
             IN  Canon(neg, IF up THEN BigAdd(q, <<1>>) ELSE q, e + s)

FromInt(n) == Canon(n < 0, BigOfInt(IF n < 0 THEN -n ELSE n), 0)

One == FromInt(1)

FDiv(n, d) ==
    \* n / d for integers n >= 0 and 0 < d < 2^19, and the value of a decimal literal
    IF n = 0 THEN Zero
    ELSE IF n < 2^20 /\ \E k \in 0..10 : (n * 2^k) % d = 0
    THEN \* the quotient is a short binary fraction: no rounding
         LET k == CHOOSE j \in 0..10 : (n * 2^j) % d = 0
         IN  Canon(FALSE, BigOfInt((n * 2^k) \div d), -k)
    ELSE LET dm == BigDivMod(BigShl(BigOfInt(n), 8 * LimbBits), d)
             \* a remainder is recorded in the lowest bit, far below the rounding place
             q == IF dm.r # 0 /\ dm.q[1] % 2 = 0 THEN [dm.q EXCEPT ![1] = @ + 1] ELSE dm.q
         IN  FRound(FALSE, q, -(8 * LimbBits))

FNeg(a) == IF a = Zero THEN Zero ELSE [a EXCEPT !.neg = ~@]

Short(a, b) ==
    \* both are integers below 2^30 times one power of two: TLC's integers hold them
    /\ Len(a.m) <= 1 /\ Len(b.m) <= 1
    /\ a.e - b.e <= 18 /\ b.e - a.e <= 18

Scaled(a, e) == (IF a.neg THEN -1 ELSE 1) * (IF a.m = <<>> THEN 0 ELSE a.m[1] * 2^(a.e - e))

FAdd(a, b) ==
    IF a = Zero THEN b
    ELSE IF b = Zero THEN a
    ELSE LET e == IF a.e < b.e THEN a.e ELSE b.e
         IN  IF Short(a, b)
             THEN LET v == Scaled(a, e) + Scaled(b, e)
                  IN  Canon(v < 0, BigOfInt(IF v < 0 THEN -v ELSE v), e)
             ELSE LET x == BigShl(a.m, a.e - e)
                      y == BigShl(b.m, b.e - e)
                      c == BigCmp(x, y)
                  IN  IF a.neg = b.neg THEN FRound(a.neg, BigAdd(x, y), e)
                      ELSE IF c = 0 THEN Zero
                      ELSE IF c = 1 THEN FRound(a.neg, BigSub(x, y), e)
                      ELSE FRound(b.neg, BigSub(y, x), e)

FSub(a, b) == FAdd(a, FNeg(b))

FMul(a, b) ==
    IF a = Zero \/ b = Zero THEN Zero
    ELSE IF Len(a.m) = 1 /\ Len(b.m) = 1
    THEN Canon(a.neg # b.neg, BigOfInt(a.m[1] * b.m[1]), a.e + b.e)
    ELSE FRound(a.neg # b.neg, BigMul(a.m, b.m), a.e + b.e)

FLess(a, b) ==
    IF a = b THEN FALSE
    ELSE IF a.neg # b.neg THEN a.neg
    ELSE IF a = Zero THEN ~b.neg
    ELSE IF b = Zero THEN a.neg
    ELSE LET e == IF a.e < b.e THEN a.e ELSE b.e
             top(x) == BigBitLen(x.m) + x.e    \* 2^(top - 1) <= |x| < 2^top
         IN  IF Short(a, b) THEN Scaled(a, e) < Scaled(b, e)
             ELSE IF top(a) # top(b) THEN (IF a.neg THEN top(a) > top(b) ELSE top(a) < top(b))
             ELSE LET c == BigCmp(BigShl(a.m, a.e - e), BigShl(b.m, b.e - e))
                  IN  IF a.neg THEN c = 1 ELSE c = -1

MathMax2(a, b) == IF FLess(a, b) THEN b ELSE a

MathFloor(a) ==
    \* Math.floor of a number 0 <= a < 2^31, as an integer
    IF a.e >= 0 THEN BigToInt(BigShl(a.m, a.e)) ELSE BigToInt(BigShr(a.m, -a.e))

(* decay rates the background job is called with: 0.01 (the default) and 1.0 *)
Rates == {FDiv(1, 100), One}

---------------------------------------------------------------------------
(* Array.prototype and Set helpers *)

slice(s, from, to) ==
    \* s.slice(from, to): 0-based, end exclusive, both clipped to the array
    LET hi == IF to > Len(s) THEN Len(s) ELSE to
    IN  IF hi <= from THEN <<>> ELSE SubSeq(s, from + 1, hi)

Range(s) == {s[i] : i \in 1..Len(s)}

RECURSIVE Dedupe(_)
Dedupe(s) ==
    \* Array.from(new Set(s)): first occurrences, in order
    IF Len(s) <= 1 THEN s
    ELSE LET half == Len(s) \div 2
             front == Dedupe(SubSeq(s, 1, half))
             back == Dedupe(SubSeq(s, half + 1, Len(s)))
         IN  front \o SelectSeq(back, LAMBDA x : x \notin Range(front))

Shuffles(s) ==
    \* every order a sort with a random comparator can leave s in
    {[i \in 1..Len(s) |-> s[p[i]]] :
        p \in {q \in [1..Len(s) -> 1..Len(s)] : \A i, j \in 1..Len(s) : q[i] = q[j] => i = j}}

---------------------------------------------------------------------------
(* VibeStore *)

IndexOf(store, id) ==
    IF \E i \in 1..Len(store) : store[i].id = id
    THEN CHOOSE i \in 1..Len(store) : store[i].id = id
    ELSE 0

MapGet(store, id) ==
    IF IndexOf(store, id) = 0 THEN undefined ELSE store[IndexOf(store, id)]

saveVibe_append(store, vibe) ==
    \* slip: the Vibe is added without looking for the id
    Append(store, vibe)

saveVibe(store, vibe) ==
    \* Map.set: an existing key keeps its place, a new key goes last
    IF IndexOf(store, vibe.id) = 0
    THEN Append(store, vibe)
    ELSE [store EXCEPT ![IndexOf(store, vibe.id)] = vibe]

getVibe(store, id) == MapGet(store, id)

getVibesByIds_oncePerId(store, ids) ==
    \* slip: the ids go through a Set first, a repeated id is looked up once
    LET found == [k \in 1..Len(Dedupe(ids)) |-> MapGet(store, Dedupe(ids)[k])]
    IN  SelectSeq(found, LAMBDA v : v # undefined)

getVibesByIds_storeOrder(store, ids) ==
    \* slip: the store is filtered by the ids, so its own order comes back
    SelectSeq(store, LAMBDA v : v.id \in Range(ids))

getVibesByIds(store, ids) ==
    LET found == [i \in 1..Len(ids) |-> MapGet(store, ids[i])]
    IN  SelectSeq(found, LAMBDA v : v # undefined)

getAllActiveVibes_unfiltered(store, t) ==
    \* slip: the filter on expiresAt is missing
    store

getAllActiveVibes_inclusive(store, t) ==
    \* slip: >= for >, a Vibe counts as active at the very instant it expires
    SelectSeq(store, LAMBDA vibe : vibe.expiresAt >= t)

getAllActiveVibes(store, t) ==
    SelectSeq(store, LAMBDA vibe : vibe.expiresAt > t)

deleteVibe(store, id) ==
    SelectSeq(store, LAMBDA vibe : vibe.id # id)

deleteExpiredVibes_byCreation(store, t) ==
    \* slip: createdAt for expiresAt, every Vibe made before now goes
    SelectSeq(store, LAMBDA vibe : ~(vibe.createdAt < t))

deleteExpiredVibes_countOnly(store, t) ==
    \* slip: the expired Vibes are counted and logged, the delete is missing
    store

deleteExpiredVibes_strict(store, t) ==
    \* slip: < for <=, a Vibe survives the sweep of the instant it expires
    SelectSeq(store, LAMBDA vibe : ~(vibe.expiresAt < t))

deleteExpiredVibes(store, t) ==
    SelectSeq(store, LAMBDA vibe : ~(vibe.expiresAt <= t))

---------------------------------------------------------------------------
(* VibeProcessor *)

null == [null |-> TRUE]

uuidv4_storeSize == Len(vibes) + 1    \* slip: ids are numbered by the size of the store

uuidv4 == nextId    \* a fresh id: never one that was handed out before

createNewVibe(id, t) ==
    \* the sensory channels are copied from the request unchanged and are not
    \* part of the ranking state; the record keeps identity, times and _internal
    [id |-> id,
     createdAt |-> t,
     expiresAt |-> t + VIBE_LIFESPAN_MS,
     parentVibeIds |-> <<>>,
     resonanceScore |-> Zero,
     generation |-> 0,
     lastResonatedAt |-> t]

RECURSIVE MathMax(_)
MathMax(xs) ==
    \* Math.max(...xs) over a non-empty array of integers
    IF Len(xs) = 1 THEN xs[1]
    ELSE LET m == MathMax(Tail(xs)) IN IF xs[1] > m THEN xs[1] ELSE m

weaveVibes_reusesParentId(store, parentVibeIds, id, t) ==
    \* slip: the woven Vibe is given the id of its first parent
    IF Len(parentVibeIds) = 0 \/ Len(parentVibeIds) > 3 THEN null
    ELSE LET parentVibes == getVibesByIds(store, parentVibeIds)
         IN  IF Len(parentVibes) # Len(parentVibeIds) THEN null
             ELSE [id |-> parentVibes[1].id,
                   createdAt |-> t,
                   expiresAt |-> t + VIBE_LIFESPAN_MS,
                   parentVibeIds |-> [i \in 1..Len(parentVibes) |-> parentVibes[i].id],
                   resonanceScore |-> Zero,
                   generation |->
                       MathMax([i \in 1..Len(parentVibes) |-> parentVibes[i].generation]) + 1,
                   lastResonatedAt |-> t]

weaveVibes_minGeneration(store, parentVibeIds, id, t) ==
    \* slip: Math.min for Math.max
    IF Len(parentVibeIds) = 0 \/ Len(parentVibeIds) > 3 THEN null
    ELSE LET parentVibes == getVibesByIds(store, parentVibeIds)
         IN  IF Len(parentVibes) # Len(parentVibeIds) THEN null
             ELSE [id |-> id,
                   createdAt |-> t,
                   expiresAt |-> t + VIBE_LIFESPAN_MS,
                   parentVibeIds |-> [i \in 1..Len(parentVibes) |-> parentVibes[i].id],
                   resonanceScore |-> Zero,
                   generation |->
                       -MathMax([i \in 1..Len(parentVibes) |-> -parentVibes[i].generation]) + 1,
                   lastResonatedAt |-> t]

weaveVibes_inheritsResonance(store, parentVibeIds, id, t) ==
    \* slip: the woven Vibe starts with the score of its first parent
    IF Len(parentVibeIds) = 0 \/ Len(parentVibeIds) > 3 THEN null
    ELSE LET parentVibes == getVibesByIds(store, parentVibeIds)
         IN  IF Len(parentVibes) # Len(parentVibeIds) THEN null
             ELSE [id |-> id,
                   createdAt |-> t,
                   expiresAt |-> t + VIBE_LIFESPAN_MS,
                   parentVibeIds |-> [i \in 1..Len(parentVibes) |-> parentVibes[i].id],
                   resonanceScore |-> parentVibes[1].resonanceScore,
                   generation |->
                       MathMax([i \in 1..Len(parentVibes) |-> parentVibes[i].generation]) + 1,
                   lastResonatedAt |-> t]

weaveVibes_firstParent(store, parentVibeIds, id, t) ==
    \* slip: the generation is taken from the first parent instead of the maximum
    IF Len(parentVibeIds) = 0 \/ Len(parentVibeIds) > 3 THEN null
    ELSE LET parentVibes == getVibesByIds(store, parentVibeIds)
         IN  IF Len(parentVibes) # Len(parentVibeIds) THEN null
             ELSE [id |-> id,
                   createdAt |-> t,
                   expiresAt |-> t + VIBE_LIFESPAN_MS,
                   parentVibeIds |-> [i \in 1..Len(parentVibes) |-> parentVibes[i].id],
                   resonanceScore |-> Zero,
                   generation |-> parentVibes[1].generation + 1,
                   lastResonatedAt |-> t]

weaveVibes_noIncrement(store, parentVibeIds, id, t) ==
    \* slip: the "+ 1" after Math.max is missing
    IF Len(parentVibeIds) = 0 \/ Len(parentVibeIds) > 3 THEN null
    ELSE LET parentVibes == getVibesByIds(store, parentVibeIds)
         IN  IF Len(parentVibes) # Len(parentVibeIds) THEN null
             ELSE [id |-> id,
                   createdAt |-> t,
                   expiresAt |-> t + VIBE_LIFESPAN_MS,
                   parentVibeIds |-> [i \in 1..Len(parentVibes) |-> parentVibes[i].id],
                   resonanceScore |-> Zero,
                   generation |->
                       MathMax([i \in 1..Len(parentVibes) |-> parentVibes[i].generation]),
                   lastResonatedAt |-> t]

weaveVibes(store, parentVibeIds, id, t) ==
    IF Len(parentVibeIds) = 0 \/ Len(parentVibeIds) > 3 THEN null
    ELSE LET parentVibes == getVibesByIds(store, parentVibeIds)
         IN  IF Len(parentVibes) # Len(parentVibeIds) THEN null
             ELSE [id |-> id,
                   createdAt |-> t,
                   expiresAt |-> t + VIBE_LIFESPAN_MS,
                   parentVibeIds |-> [i \in 1..Len(parentVibes) |-> parentVibes[i].id],
                   resonanceScore |-> Zero,
                   generation |->
                       MathMax([i \in 1..Len(parentVibes) |-> parentVibes[i].generation]) + 1,
                   lastResonatedAt |-> t]

resonateWithVibe_bumpsGeneration(store, vibeId, t) ==
    \* slip: a resonance also counts as a generation
    LET vibe == getVibe(store, vibeId)
    IN  IF vibe = undefined THEN null
        ELSE [vibe EXCEPT !.resonanceScore = FAdd(@, One),
                          !.lastResonatedAt = t,
                          !.generation = @ + 1]

resonateWithVibe_renewsLease(store, vibeId, t) ==
    \* slip: a resonance also pushes expiresAt a lifespan ahead
    LET vibe == getVibe(store, vibeId)
    IN  IF vibe = undefined THEN null
        ELSE [vibe EXCEPT !.resonanceScore = FAdd(@, One),
                          !.lastResonatedAt = t,
                          !.expiresAt = t + VIBE_LIFESPAN_MS]

resonateWithVibe_staleTime(store, vibeId, t) ==
    \* slip: the score is incremented but lastResonatedAt is not refreshed
    LET vibe == getVibe(store, vibeId)
    IN  IF vibe = undefined THEN null
        ELSE [vibe EXCEPT !.resonanceScore = FAdd(@, One)]

resonateWithVibe_decrement(store, vibeId, t) ==
    \* slip: -= for +=
    LET vibe == getVibe(store, vibeId)
    IN  IF vibe = undefined THEN null
        ELSE [vibe EXCEPT !.resonanceScore = FSub(@, One),
                          !.lastResonatedAt = t]

resonateWithVibe(store, vibeId, t) ==
    LET vibe == getVibe(store, vibeId)
    IN  IF vibe = undefined THEN null
        ELSE [vibe EXCEPT !.resonanceScore = FAdd(@, One),
                          !.lastResonatedAt = t]

decayed_unclamped(vibe, decayRate, t) ==
    \* slip: the Math.max(0, ...) around the subtraction is missing
    LET hoursSinceLastResonance == FDiv(t - vibe.lastResonatedAt, HOUR_MS)
    IN  IF FLess(One, hoursSinceLastResonance)
        THEN LET decayAmount == FMul(FMul(vibe.resonanceScore, decayRate),
                                     hoursSinceLastResonance)
             IN  [vibe EXCEPT !.resonanceScore = FSub(vibe.resonanceScore, decayAmount)]
        ELSE vibe

decayed_restartsTheHour(vibe, decayRate, t) ==
    \* slip: a decayed Vibe counts as resonated just now
    LET hoursSinceLastResonance == FDiv(t - vibe.lastResonatedAt, HOUR_MS)
    IN  IF FLess(One, hoursSinceLastResonance)
        THEN LET decayAmount == FMul(FMul(vibe.resonanceScore, decayRate),
                                     hoursSinceLastResonance)
             IN  [vibe EXCEPT !.resonanceScore =
                                  MathMax2(Zero, FSub(vibe.resonanceScore, decayAmount)),
                              !.lastResonatedAt = t]
        ELSE vibe

decayed_fromOneHour(vibe, decayRate, t) ==
    \* slip: >= for >, a Vibe resonated exactly one hour ago decays too
    LET hoursSinceLastResonance == FDiv(t - vibe.lastResonatedAt, HOUR_MS)
    IN  IF ~FLess(hoursSinceLastResonance, One)
        THEN LET decayAmount == FMul(FMul(vibe.resonanceScore, decayRate),
                                     hoursSinceLastResonance)
             IN  [vibe EXCEPT !.resonanceScore =
                                  MathMax2(Zero, FSub(vibe.resonanceScore, decayAmount))]
        ELSE vibe

decayed_hoursDropped(vibe, decayRate, t) ==
    \* slip: the amount is not multiplied by the hours elapsed
    LET hoursSinceLastResonance == FDiv(t - vibe.lastResonatedAt, HOUR_MS)
    IN  IF FLess(One, hoursSinceLastResonance)
        THEN LET decayAmount == FMul(vibe.resonanceScore, decayRate)
             IN  [vibe EXCEPT !.resonanceScore =
                                  MathMax2(Zero, FSub(vibe.resonanceScore, decayAmount))]
        ELSE vibe

decayed(vibe, decayRate, t) ==
    \* the body of the forEach callback of decayVibeResonance
    LET hoursSinceLastResonance == FDiv(t - vibe.lastResonatedAt, HOUR_MS)
    IN  IF FLess(One, hoursSinceLastResonance)
        THEN LET decayAmount == FMul(FMul(vibe.resonanceScore, decayRate),
                                     hoursSinceLastResonance)
             IN  [vibe EXCEPT !.resonanceScore =
                                  MathMax2(Zero, FSub(vibe.resonanceScore, decayAmount))]
        ELSE vibe

decayVibeResonance(store, decayRate, t) ==
    \* every active Vibe is visited once and saved back under its own id
    [i \in 1..Len(store) |->
        IF store[i].expiresAt > t THEN decayed(store[i], decayRate, t) ELSE store[i]]

RECURSIVE sortByResonance_ascending(_)
sortByResonance_ascending(s) ==
    \* slip: a - b for b - a, the lowest score comes first
    IF s = <<>> THEN <<>>
    ELSE LET scores == {s[i].resonanceScore : i \in 1..Len(s)}
             low == CHOOSE x \in scores : \A y \in scores : ~FLess(y, x)
         IN  SelectSeq(s, LAMBDA v : v.resonanceScore = low)
                 \o sortByResonance_ascending(SelectSeq(s, LAMBDA v : v.resonanceScore # low))

RECURSIVE sortByResonance(_)
sortByResonance(s) ==
    \* Array.prototype.sort((a, b) => b.score - a.score): stable, descending.
    \* The Vibes with the highest score come first, in the order they had, and
    \* the others follow, sorted the same way.
    IF s = <<>> THEN <<>>
    ELSE LET scores == {s[i].resonanceScore : i \in 1..Len(s)}
             high == CHOOSE x \in scores : \A y \in scores : ~FLess(x, y)
         IN  SelectSeq(s, LAMBDA v : v.resonanceScore = high)
                 \o sortByResonance(SelectSeq(s, LAMBDA v : v.resonanceScore # high))

LIMIT_MAX == 100    \* the handler accepts limits 1..100

(* Math.floor(limit * 0.7) for every limit the handler lets through *)
floorOf70PercentOf == [limit \in 1..LIMIT_MAX |-> MathFloor(FMul(FromInt(limit), FDiv(7, 10)))]

floorOf70Percent(limit) == floorOf70PercentOf[limit]

getStreamVibes_randomUpToLimit(store, streamType, limit, t) ==
    \* slip: the random part is cut at limit, not at what the popular part leaves
    LET allActiveVibes == sortByResonance(getAllActiveVibes(store, t))
    IN  IF streamType = "personal"
        THEN LET highlyResonated == slice(allActiveVibes, 0, floorOf70Percent(limit))
                 others == SelectSeq(allActiveVibes,
                                     LAMBDA v : v \notin Range(highlyResonated))
             IN  {Dedupe([i \in 1..Len(mix) |-> mix[i].id]) :
                     mix \in {highlyResonated \o slice(sh, 0, limit) :
                                 sh \in Shuffles(others)}}
        ELSE IF streamType = "collective"
        THEN LET top == slice(allActiveVibes, 0, limit)
             IN  {[i \in 1..Len(top) |-> top[i].id]}
        ELSE {<<>>}

getStreamVibes(store, streamType, limit, t) ==
    \* the set of id arrays the call may return (the shuffle is random)
    LET allActiveVibes == sortByResonance(getAllActiveVibes(store, t))
    IN  IF streamType = "personal"
        THEN LET highlyResonated == slice(allActiveVibes, 0, floorOf70Percent(limit))
                 others == SelectSeq(allActiveVibes,
                                     LAMBDA v : v \notin Range(highlyResonated))
             IN  {Dedupe([i \in 1..Len(mix) |-> mix[i].id]) :
                     mix \in {highlyResonated \o slice(sh, 0, limit - Len(highlyResonated)) :
                                 sh \in Shuffles(others)}}
        ELSE IF streamType = "collective"
        THEN LET top == slice(allActiveVibes, 0, limit)
             IN  {[i \in 1..Len(top) |-> top[i].id]}
        ELSE {<<>>}

---------------------------------------------------------------------------
(* Request handlers (api/auraRoutes.ts).  res is what the handler answers:  *)
(* the status, and from the JSON body the id it names, the Vibes it carries *)
(* and the score it reports.  It is idle while no response is outstanding.  *)

Response(op, status, vibeId, body, score) ==
    [op |-> op, status |-> status, vibeId |-> vibeId, vibes |-> body,
     currentResonanceScore |-> score]

idle == Response("idle", 0, 0, <<>>, Zero)

(* request bodies of POST /api/vibes: visual and audio present or not, with *)
(* an intensity and a volume inside and outside 0..100                      *)
CreateBodies ==
    [visual : {undefined, [intensity |-> 60], [intensity |-> 150]},
     audio : {undefined, [volume |-> 70], [volume |-> -1]}]

(* parentVibeIds arrays of POST /api/vibes/weave: every array of none to   *)
(* three ids, and the arrays of four times the same id                     *)
ParentIdLists ==
    UNION {[1..k -> IdUniverse] : k \in 0..3} \cup {[k \in 1..4 |-> i] : i \in IdUniverse}

StreamTypes == {"personal", "collective", "invalid-type"}

CreateRejected_noUpperBound(body) ==
    \* slip: only negative intensities and volumes are turned away
    \/ body.visual = undefined \/ body.audio = undefined
    \/ body.visual.intensity < 0
    \/ body.audio.volume < 0

CreateRejected(body) ==
    \/ body.visual = undefined \/ body.audio = undefined
    \/ body.visual.intensity < 0 \/ body.visual.intensity > 100
    \/ body.audio.volume < 0 \/ body.audio.volume > 100

handleCreateVibe(body) ==
    IF CreateRejected(body)
    THEN /\ res' = Response("create", 400, 0, <<>>, Zero)
         /\ UNCHANGED <<vibes, nextId>>
    ELSE /\ nextId <= MaxVibes
         /\ LET newVibe == createNewVibe(uuidv4, now)
            IN  /\ vibes' = saveVibe(vibes, newVibe)
                /\ res' = Response("create", 201, newVibe.id, <<newVibe>>, Zero)
         /\ nextId' = nextId + 1

WeaveRejected_upToFour(parentVibeIds) ==
    \* slip: the handler lets four ids through
    Len(parentVibeIds) = 0 \/ Len(parentVibeIds) > 4

WeaveRejected(parentVibeIds) ==
    Len(parentVibeIds) = 0 \/ Len(parentVibeIds) > 3

handleWeaveVibes(parentVibeIds) ==
    IF WeaveRejected(parentVibeIds)
    THEN /\ res' = Response("weave", 400, 0, <<>>, Zero)
         /\ UNCHANGED <<vibes, nextId>>
    ELSE LET wovenVibe == weaveVibes(vibes, parentVibeIds, uuidv4, now)
         IN  IF wovenVibe = null
             THEN /\ res' = Response("weave", 404, 0, <<>>, Zero)
                  /\ UNCHANGED <<vibes, nextId>>
             ELSE /\ nextId <= MaxVibes
                  /\ vibes' = saveVibe(vibes, wovenVibe)
                  /\ res' = Response("weave", 201, wovenVibe.id, <<wovenVibe>>, Zero)
                  /\ nextId' = nextId + 1

handleResonateVibe(vibeId) ==
    IF vibeId = 0     \* no vibeId in the request
    THEN /\ res' = Response("resonate", 400, 0, <<>>, Zero)
         /\ UNCHANGED <<vibes, resonated>>
    ELSE LET updatedVibe == resonateWithVibe(vibes, vibeId, now)
         IN  IF updatedVibe = null
             THEN /\ res' = Response("resonate", 404, vibeId, <<>>, Zero)
                  /\ UNCHANGED <<vibes, resonated>>
             ELSE /\ resonated < MaxResonances
                  /\ resonated' = resonated + 1
                  /\ vibes' = saveVibe(vibes, updatedVibe)
                  /\ res' = Response("resonate", 200, updatedVibe.id, <<>>,
                                     updatedVibe.resonanceScore)

handleGetVibe_noExpiryCheck(vibeId) ==
    \* slip: the handler answers with whatever the store holds
    /\ IF vibeId = 0
       THEN res' = Response("get", 400, 0, <<>>, Zero)
       ELSE LET vibe == getVibe(vibes, vibeId)
            IN  IF vibe = undefined
                THEN res' = Response("get", 404, vibeId, <<>>, Zero)
                ELSE res' = Response("get", 200, vibeId, <<vibe>>, Zero)
    /\ UNCHANGED vibes

handleGetVibe(vibeId) ==
    /\ IF vibeId = 0
       THEN res' = Response("get", 400, 0, <<>>, Zero)
       ELSE LET vibe == getVibe(vibes, vibeId)
            IN  IF vibe = undefined
                THEN res' = Response("get", 404, vibeId, <<>>, Zero)
                ELSE IF vibe.expiresAt <= now
                THEN res' = Response("get", 404, vibeId, <<>>, Zero)
                ELSE res' = Response("get", 200, vibeId, <<vibe>>, Zero)
    /\ UNCHANGED vibes

handleGetStreamVibes(streamType, limit) ==
    /\ IF streamType \notin {"personal", "collective"}
       THEN res' = Response("stream", 400, 0, <<>>, Zero)
       ELSE \E vibeIds \in getStreamVibes(vibes, streamType, limit, now) :
                res' = Response(streamType, 200, 0, getVibesByIds(vibes, vibeIds), Zero)
    /\ UNCHANGED vibes

---------------------------------------------------------------------------
(* The state machine *)

Init ==
    /\ vibes = <<>>
    /\ now = 0
    /\ nextId = 1
    /\ resonated = 0
    /\ res = idle

CreateVibe ==
    /\ res = idle
    /\ \E body \in CreateBodies : handleCreateVibe(body)
    /\ UNCHANGED <<now, resonated>>

WeaveVibes ==
    /\ res = idle
    /\ \E parentVibeIds \in ParentIdLists : handleWeaveVibes(parentVibeIds)
    /\ UNCHANGED <<now, resonated>>

ResonateVibe ==
    /\ res = idle
    /\ \E vibeId \in IdUniverse \cup {0} : handleResonateVibe(vibeId)
    /\ UNCHANGED <<now, nextId>>

GetVibe ==
    /\ res = idle
    /\ \E vibeId \in IdUniverse \cup {0} : handleGetVibe(vibeId)
    /\ UNCHANGED <<now, nextId, resonated>>

GetStreamVibes ==
    /\ res = idle
    /\ \E streamType \in StreamTypes, limit \in 1..MaxLimit :
           handleGetStreamVibes(streamType, limit)
    /\ UNCHANGED <<now, nextId, resonated>>

(* the background job: decayVibeResonance(decayRate) *)
Decay ==
    /\ res = idle
    /\ \E decayRate \in Rates :
           /\ vibes' = decayVibeResonance(vibes, decayRate, now)
           /\ \A i \in 1..Len(vibes) : vibes'[i].resonanceScore.e >= -MaxFractionBits
    /\ res' = idle
    /\ UNCHANGED <<now, nextId, resonated>>

(* the store's hourly timer, or a direct call: deleteExpiredVibes() *)
Sweep ==
    /\ res = idle
    /\ vibes' = deleteExpiredVibes(vibes, now)
    /\ res' = idle
    /\ UNCHANGED <<now, nextId, resonated>>

(* vibeStore.clear() *)
Clear ==
    /\ res = idle
    /\ vibes' = <<>>
    /\ res' = idle
    /\ UNCHANGED <<now, nextId, resonated>>

(* the clock moves on to a later reading *)
Advance ==
    /\ res = idle
    /\ \E t \in Instants : t > now /\ now' = t
    /\ res' = idle
    /\ UNCHANGED <<vibes, nextId, resonated>>

(* the caller takes the response; the next request comes after it *)
Deliver ==
    /\ res # idle
    /\ res' = idle
    /\ UNCHANGED <<vibes, now, nextId, resonated>>

Next ==
    \/ CreateVibe
    \/ WeaveVibes
    \/ ResonateVibe
    \/ GetVibe
    \/ GetStreamVibes
    \/ Decay
    \/ Sweep
    \/ Clear
    \/ Advance
    \/ Deliver

Spec == Init /\ [][Next]_vars

(* Scheduling: a response that is being delivered gets delivered, and the   *)
(* store's setInterval timer keeps firing between requests for as long as   *)
(* the process runs, however many requests arrive.                          *)
LiveSpec == Spec /\ WF_vars(Deliver) /\ SF_vars(Sweep)

---------------------------------------------------------------------------
(* Direct calls on the store and the processor, as runDemo and the unit    *)
(* tests make them: one call on a store that earlier calls have filled.    *)
(* res records the call: its name, the store before it, its argument and   *)
(* what it returned.                                                       *)

MaxStored == 2      \* Vibes in the store a direct call starts from

Call(op, before, arg, result) ==
    [op |-> op, before |-> before, arg |-> arg, result |-> result]

(* clock readings of a direct call: start-up, 30 min, 1 h, 1.5 h, 2 h,     *)
(* 12.5 h, 25 h, and the expiry of the Vibes of start-up, to the tick and  *)
(* one tick later                                                          *)
DirectInstants ==
    {0, 1, HOUR_MS, HOUR_MS + 1, 2 * HOUR_MS, 25, 25 * HOUR_MS,
     VIBE_LIFESPAN_MS, VIBE_LIFESPAN_MS + 1}

(* scores a Vibe can have been resonated up to *)
DirectScores == {Zero, One, FromInt(3), FromInt(29)}

(* decay rates of direct calls: the default, 0.04, runDemo's 0.5, and 1.0 *)
DirectRates == {FDiv(1, 100), FDiv(1, 25), FDiv(1, 2), One}

(* a Vibe with this id as the processor can have left it by time t: created *)
(* at start-up or a tick later, last resonated at creation or just now      *)
DirectVibes(id, t) ==
    {[createNewVibe(id, c) EXCEPT !.resonanceScore = score, !.lastResonatedAt = r] :
        c \in {c0 \in {0, 1} : c0 <= t},
        r \in {t} \cup {c0 \in {0, 1} : c0 <= t},
        score \in DirectScores}

DirectStores(t) ==
    UNION {{st \in [1..n -> UNION {DirectVibes(id, t) : id \in IdUniverse}] :
               \A i \in 1..n : st[i].id = i /\ st[i].lastResonatedAt >= st[i].createdAt} :
           n \in 0..MaxStored}

DirectInit ==
    /\ now \in DirectInstants
    /\ vibes \in DirectStores(now)
    /\ nextId = Len(vibes) + 1
    /\ resonated = 0
    /\ res = idle

(* vibeProcessor.decayVibeResonance(decayRate) *)
CallDecay ==
    /\ res = idle
    /\ \E decayRate \in DirectRates :
           /\ vibes' = decayVibeResonance(vibes, decayRate, now)
           /\ res' = Call("decayVibeResonance", vibes, decayRate, undefined)
    /\ UNCHANGED <<now, nextId, resonated>>

(* vibeStore.deleteExpiredVibes() *)
CallDeleteExpired ==
    /\ res = idle
    /\ vibes' = deleteExpiredVibes(vibes, now)
    /\ res' = Call("deleteExpiredVibes", vibes, now, Len(vibes) - Len(vibes'))
    /\ UNCHANGED <<now, nextId, resonated>>

(* vibeStore.saveVibe(vibe) *)
CallSaveVibe ==
    /\ res = idle
    /\ \E id \in IdUniverse : \E vibe \in DirectVibes(id, now) :
           /\ vibes' = saveVibe(vibes, vibe)
           /\ res' = Call("saveVibe", vibes, vibe, undefined)
    /\ UNCHANGED <<now, nextId, resonated>>

(* vibeStore.getVibesByIds(ids) *)
CallGetVibesByIds ==
    /\ res = idle
    /\ \E ids \in ParentIdLists :
           res' = Call("getVibesByIds", vibes, ids, getVibesByIds(vibes, ids))
    /\ UNCHANGED <<vibes, now, nextId, resonated>>

(* a second vibeProcessor.decayVibeResonance(decayRate) right after the first, *)
(* at the same clock reading and with the same rate; res keeps the store the  *)
(* first call started from                                                    *)
CallDecayAgain ==
    /\ res # idle
    /\ res.op = "decayVibeResonance"
    /\ vibes' = decayVibeResonance(vibes, res.arg, now)
    /\ res' = Call("decayVibeResonance twice", res.before, res.arg, undefined)
    /\ UNCHANGED <<now, nextId, resonated>>

DirectNext ==
    \/ CallDecay
    \/ CallDecayAgain
    \/ CallDeleteExpired
    \/ CallSaveVibe
    \/ CallGetVibesByIds

DirectSpec == DirectInit /\ [][DirectNext]_vars

---------------------------------------------------------------------------
(* Streams over a busy store: some sixty active Vibes and limits near 90.  *)

StreamVibes == 64   \* Vibes in the busy store, give or take one

StreamLimits == {89, 90, 91}

(* n Vibes created at start-up: one never resonated with, its neighbour *)
(* once, every other one twice                                          *)
StreamStore(n, never) ==
    [i \in 1..n |->
        [createNewVibe(i, 0) EXCEPT
            !.resonanceScore = IF i = never THEN Zero
                               ELSE IF i = (never % n) + 1 THEN One
                               ELSE FromInt(2)]]

StreamInit ==
    /\ now = 0
    /\ \E n \in (StreamVibes - 1)..(StreamVibes + 1) : \E never \in 1..n :
           /\ vibes = StreamStore(n, never)
           /\ nextId = n + 1
    /\ resonated = 0
    /\ res = idle

(* vibeProcessor.getStreamVibes(streamType, associatedId, limit) *)
CallGetStreamVibes ==
    /\ res = idle
    /\ \E streamType \in StreamTypes, limit \in StreamLimits :
           \E vibeIds \in getStreamVibes(vibes, streamType, limit, now) :
               res' = Call("getStreamVibes", vibes, <<streamType, limit>>, vibeIds)
    /\ UNCHANGED <<vibes, now, nextId, resonated>>

StreamNext == CallGetStreamVibes

StreamSpec == StreamInit /\ [][StreamNext]_vars

---------------------------------------------------------------------------
(* Weaving the sensory channels (VibeProcessor's blend helpers, colorUtils). *)
(* A hex colour string is the sequence of its digits after the optional "#", *)
(* each digit by its value: the letter case of a digit is not followed.     *)

MathSum(xs) ==
    \* the sum of an array of integers
    LET RECURSIVE upTo(_)
        upTo(k) == IF k = 0 THEN 0 ELSE upTo(k - 1) + xs[k]
    IN  upTo(Len(xs))

FSum(xs) ==
    \* xs.reduce((sum, x) => sum + x, 0)
    LET RECURSIVE upTo(_)
        upTo(k) == IF k = 0 THEN Zero ELSE FAdd(upTo(k - 1), xs[k])
    IN  upTo(Len(xs))

FDivBy(a, n) ==
    \* a / n for an integer 0 < n < 2^19
    IF a = Zero THEN Zero
    ELSE LET dm == BigDivMod(BigShl(a.m, 8 * LimbBits), n)
             q == IF dm.r # 0 /\ dm.q[1] % 2 = 0 THEN [dm.q EXCEPT ![1] = @ + 1] ELSE dm.q
         IN  FRound(a.neg, q, a.e - 8 * LimbBits)

MathRound(a) ==
    \* Math.round of a number of magnitude below 2^31, as an integer: the
    \* nearest integer, a half going to the integer above
    IF a = Zero THEN 0
    ELSE IF a.e >= 0 THEN (IF a.neg THEN -1 ELSE 1) * BigToInt(BigShl(a.m, a.e))
    ELSE LET half == BigShl(<<1>>, -a.e - 1)
         IN  IF ~a.neg THEN BigToInt(BigShr(BigAdd(a.m, half), -a.e))
             ELSE IF BigCmp(a.m, half) <= 0 THEN 0
             ELSE -BigToInt(BigShr(BigAdd(BigSub(a.m, half),
                                          BigSub(BigShl(<<1>>, -a.e), <<1>>)), -a.e))

blendedLevel_floor(levels) ==
    \* slip: Math.floor in place of Math.round
    LET avg == FDivBy(FSum(levels), Len(levels))
        rounded == IF ~avg.neg THEN MathFloor(avg)
                   ELSE -MathFloor(FNeg(avg)) - (IF avg.e < 0 THEN 1 ELSE 0)
        atLeast0 == IF rounded < 0 THEN 0 ELSE rounded
    IN  FromInt(IF atLeast0 > 100 THEN 100 ELSE atLeast0)

blendedLevel(levels) ==
    \* Math.min(100, Math.max(0, Math.round(sum / length)))
    LET avg == FDivBy(FSum(levels), Len(levels))
        rounded == MathRound(avg)
        atLeast0 == IF rounded < 0 THEN 0 ELSE rounded
    IN  FromInt(IF atLeast0 > 100 THEN 100 ELSE atLeast0)

hexToRgb(hex) ==
    \* the three-digit shorthand is doubled digit by digit; anything that is
    \* not six hex digits then gives null
    LET full == IF Len(hex) = 3 /\ \A k \in 1..3 : hex[k] \in 0..15
                THEN <<hex[1], hex[1], hex[2], hex[2], hex[3], hex[3]>>
                ELSE hex
    IN  IF Len(full) = 6 /\ \A k \in 1..6 : full[k] \in 0..15
        THEN <<16 * full[1] + full[2], 16 * full[3] + full[4], 16 * full[5] + full[6]>>
        ELSE null

RECURSIVE toString16(_)
toString16(n) ==
    \* n.toString(16) for n > 0
    IF n < 16 THEN <<n>> ELSE Append(toString16(n \div 16), n % 16)

rgbToHex(r, g, b) ==
    \* "#" + ((1 << 24) + (r << 16) + (g << 8) + b).toString(16).slice(1)
    LET digits == toString16(2^24 + r * 2^16 + g * 2^8 + b)
    IN  slice(digits, 1, Len(digits))

interpolateRgb(color1, color2, factor) ==
    [k \in 1..3 |->
        MathRound(FAdd(FromInt(color1[k]),
                       FMul(factor, FromInt(color2[k] - color1[k]))))]

(* values of Math.random() followed as an interpolation factor *)
Factors == {Zero, FDiv(1, 2)}

blendHexPalettes_distinctPool(hexColors, numColors) ==
    \* variant: a colour string counts once in the average however often it is passed
    IF Len(hexColors) = 0 THEN {<<>>}
    ELSE IF Len(hexColors) = 1 THEN {<<hexColors[1]>>}
    ELSE LET rgbColors == SelectSeq([k \in 1..Len(hexColors) |-> hexToRgb(hexColors[k])],
                                    LAMBDA c : c # null)
             n == Len(rgbColors)
         IN  IF n = 0 THEN {<<>>}
             ELSE LET once == Dedupe(rgbColors)
                      avg(k) == MathRound(FDiv(MathSum([i \in 1..Len(once) |-> once[i][k]]),
                                               Len(once)))
                      first == rgbToHex(avg(1), avg(2), avg(3))
                      \* idx2 is drawn again until it differs from idx1
                      mixes == {LET c == interpolateRgb(rgbColors[idx[1]], rgbColors[idx[2]], factor)
                                IN  rgbToHex(c[1], c[2], c[3]) :
                                   idx \in {p \in (1..n) \X (1..n) : n = 1 \/ p[1] # p[2]},
                                   factor \in Factors}
                  IN  {slice(Dedupe(<<first>> \o rest), 0, numColors) :
                          rest \in [1..(numColors - 1) -> mixes]}

blendHexPalettes(hexColors, numColors) ==
    \* the palettes one call can return, over the values of Math.random()
    IF Len(hexColors) = 0 THEN {<<>>}
    ELSE IF Len(hexColors) = 1 THEN {<<hexColors[1]>>}
    ELSE LET rgbColors == SelectSeq([k \in 1..Len(hexColors) |-> hexToRgb(hexColors[k])],
                                    LAMBDA c : c # null)
             n == Len(rgbColors)
         IN  IF n = 0 THEN {<<>>}
             ELSE LET avg(k) == MathRound(FDiv(MathSum([i \in 1..n |-> rgbColors[i][k]]), n))
                      first == rgbToHex(avg(1), avg(2), avg(3))
                      \* idx2 is drawn again until it differs from idx1
                      mixes == {LET c == interpolateRgb(rgbColors[idx[1]], rgbColors[idx[2]], factor)
                                IN  rgbToHex(c[1], c[2], c[3]) :
                                   idx \in {p \in (1..n) \X (1..n) : n = 1 \/ p[1] # p[2]},
                                   factor \in Factors}
                  IN  {slice(Dedupe(<<first>> \o rest), 0, numColors) :
                          rest \in [1..(numColors - 1) -> mixes]}

flatMap(arrays) ==
    LET RECURSIVE upTo(_)
        upTo(k) == IF k = 0 THEN <<>> ELSE upTo(k - 1) \o arrays[k]
    IN  upTo(Len(arrays))

blendVisuals(visuals) ==
    {[palette |-> blendedPalette, animationType |-> visuals[pick].animationType,
      intensity |-> blendedLevel([k \in 1..Len(visuals) |-> visuals[k].intensity])] :
        pick \in 1..Len(visuals),
        blendedPalette \in
            blendHexPalettes(flatMap([k \in 1..Len(visuals) |-> visuals[k].palette]), 3)}

blendAudios(audios) ==
    {[loopUrl |-> audios[pick].loopUrl,
      volume |-> blendedLevel([k \in 1..Len(audios) |-> audios[k].volume]),
      pitchShift |-> FDivBy(FSum([k \in 1..Len(audios) |->
                                     IF audios[k].pitchShift = undefined THEN Zero
                                     ELSE audios[k].pitchShift]), Len(audios))] :
        pick \in 1..Len(audios)}

blendHaptics_firstIntensity(haptics) ==
    \* slip: the intensity of the first haptic channel in place of the mean
    IF Len(haptics) = 0 THEN {undefined}
    ELSE {[pattern |-> haptics[pick].pattern,
           intensity |-> blendedLevel(<<haptics[1].intensity>>)] :
             pick \in 1..Len(haptics)}

blendHaptics(haptics) ==
    IF Len(haptics) = 0 THEN {undefined}
    ELSE {[pattern |-> haptics[pick].pattern,
           intensity |-> blendedLevel([k \in 1..Len(haptics) |-> haptics[k].intensity])] :
             pick \in 1..Len(haptics)}

blendTexts_onePick(texts) ==
    \* slip: one random index serves all three fields
    IF Len(texts) = 0 THEN {undefined}
    ELSE {[content |-> texts[pick].content, fontStyle |-> texts[pick].fontStyle,
           color |-> texts[pick].color] : pick \in 1..Len(texts)}

blendTexts(texts) ==
    IF Len(texts) = 0 THEN {undefined}
    ELSE {[content |-> texts[i].content, fontStyle |-> texts[k].fontStyle,
           color |-> texts[j].color] :
             i \in 1..Len(texts), j \in 1..Len(texts), k \in 1..Len(texts)}

(* the Vibes weaveVibes can build and save, one per outcome of the random *)
(* picks; {null} when it refuses                                          *)
weaveVibes_blended(store, parentVibeIds, id, t) ==
    LET core == weaveVibes(store, parentVibeIds, id, t)
    IN  IF core = null THEN {null}
        ELSE LET parentVibes == getVibesByIds(store, parentVibeIds)
                 n == Len(parentVibes)
                 haptics == SelectSeq([k \in 1..n |-> parentVibes[k].haptic],
                                      LAMBDA h : h # undefined)
                 texts == SelectSeq([k \in 1..n |-> parentVibes[k].text],
                                    LAMBDA x : x # undefined)
             IN  {core @@ [visual |-> visual, audio |-> audio, haptic |-> haptic, text |-> text] :
                     visual \in blendVisuals([k \in 1..n |-> parentVibes[k].visual]),
                     audio \in blendAudios([k \in 1..n |-> parentVibes[k].audio]),
                     haptic \in blendHaptics(haptics),
                     text \in blendTexts(texts)}

Black == <<0, 0, 0, 0, 0, 0>>             \* "#000000"
White == <<15, 15, 15, 15, 15, 15>>       \* "#FFFFFF"
Red == <<15, 0, 0>>                       \* "#F00", the shorthand of "#FF0000"
NotAColor == <<16, 16>>                   \* a string hexToRgb does not accept

(* sensory channels as POST /api/vibes accepts them: intensity and volume in *)
(* 0..100, whole or not; haptic and text optional; haptic.intensity unchecked *)
Channels ==
    {[visual |-> [palette |-> <<Black>>, animationType |-> "pulse", intensity |-> FromInt(60)],
      audio |-> [loopUrl |-> "a.mp3", volume |-> FromInt(70), pitchShift |-> undefined],
      haptic |-> undefined,
      text |-> undefined],
     [visual |-> [palette |-> <<White>>, animationType |-> "wave", intensity |-> FromInt(85)],
      audio |-> [loopUrl |-> "b.mp3", volume |-> FromInt(85), pitchShift |-> One],
      haptic |-> [pattern |-> "short_buzz", intensity |-> FromInt(150)],
      text |-> [content |-> "calm", fontStyle |-> "serif", color |-> White]],
     [visual |-> [palette |-> <<Black, Red>>, animationType |-> "pulse",
                  intensity |-> FDiv(145, 2)],
      audio |-> [loopUrl |-> "a.mp3", volume |-> FromInt(100), pitchShift |-> FDiv(1, 2)],
      haptic |-> [pattern |-> "long_pulse", intensity |-> FromInt(35)],
      text |-> [content |-> "storm", fontStyle |-> "monospace", color |-> Black]],
     [visual |-> [palette |-> <<NotAColor, White>>, animationType |-> "wave",
                  intensity |-> Zero],
      audio |-> [loopUrl |-> "b.mp3", volume |-> Zero, pitchShift |-> undefined],
      haptic |-> [pattern |-> "short_buzz", intensity |-> FromInt(-20)],
      text |-> undefined]}

MaxParents == 3   \* Vibes in the store before the weave

(* Vibes created at start-up; the Vibe of id i was resonated with i - 1 *)
(* times right away                                                    *)
BlendStores ==
    UNION {{st \in [1..n -> {[createNewVibe(id, 0) EXCEPT !.resonanceScore = FromInt(id - 1)] @@ c :
                                id \in 1..n, c \in Channels}] :
               \A i \in 1..n : st[i].id = i} :
           n \in 1..MaxParents}

BlendInit ==
    /\ now = HOUR_MS + 1
    /\ vibes \in BlendStores
    /\ nextId = Len(vibes) + 1
    /\ resonated = 0
    /\ res = idle

(* vibeProcessor.weaveVibes(parentVibeIds), sensory channels included *)
CallWeaveVibes ==
    /\ res = idle
    /\ \E parentVibeIds \in ParentIdLists :
       \E wovenVibe \in weaveVibes_blended(vibes, parentVibeIds, uuidv4, now) :
           /\ vibes' = IF wovenVibe = null THEN vibes ELSE saveVibe(vibes, wovenVibe)
           /\ nextId' = IF wovenVibe = null THEN nextId ELSE nextId + 1
           /\ res' = Call("weaveVibes", vibes, parentVibeIds, wovenVibe)
    /\ UNCHANGED <<now, resonated>>

(* vibeProcessor.resonateWithVibe(vibeId) on Vibes with their channels *)
CallResonateWithVibe ==
    /\ res = idle
    /\ \E vibeId \in IdUniverse :
           LET updatedVibe == resonateWithVibe(vibes, vibeId, now)
           IN  /\ vibes' = IF updatedVibe = null THEN vibes ELSE saveVibe(vibes, updatedVibe)
               /\ res' = Call("resonateWithVibe", vibes, vibeId, updatedVibe)
    /\ UNCHANGED <<now, nextId, resonated>>

(* vibeProcessor.decayVibeResonance(decayRate) on Vibes with their channels *)
CallDecayVibeResonance ==
    /\ res = idle
    /\ \E decayRate \in DirectRates :
           /\ vibes' = decayVibeResonance(vibes, decayRate, now)
           /\ res' = Call("decayVibeResonance", vibes, decayRate, undefined)
    /\ UNCHANGED <<now, nextId, resonated>>

BlendNext ==
    \/ CallWeaveVibes
    \/ CallResonateWithVibe
    \/ CallDecayVibeResonance

BlendSpec == BlendInit /\ [][BlendNext]_vars

---------------------------------------------------------------------------
(* Statement by statement: resonateWithVibe and decayVibeResonance taken one  *)
(* statement at a time, next to the reads, as callbacks of one event loop.  *)
(* getVibe and getAllActiveVibes hand out the stored objects themselves, so *)
(* an assignment to vibe._internal changes the store at once; a Vibe is     *)
(* referred to by its id.  res holds the frames of the running callbacks,   *)
(* what the last read returned, and the store as the last callback to       *)
(* return left it.                                                          *)

MaxCallbacks == 3    \* callbacks the event loop takes in one run

noFrame == [pc |-> "idle", vibeId |-> 0, decayRate |-> Zero, now |-> 0, todo |-> <<>>,
            decayAmount |-> Zero, before |-> <<>>]

noRead == [op |-> "none", seen |-> <<>>, settled |-> <<>>]

Loop(resonate, decay, read, settled) ==
    [op |-> "loop", resonate |-> resonate, decay |-> decay, read |-> read, settled |-> settled]

LoopInit ==
    /\ now \in {HOUR_MS + 1, 2 * HOUR_MS}
    /\ vibes \in DirectStores(now)
    /\ nextId = Len(vibes) + 1
    /\ resonated = 0
    /\ res = Loop(noFrame, noFrame, noRead, vibes)

CallStackEmpty_preemptive == TRUE    \* variant: a callback can start while another is running

(* no callback is running: resonateWithVibe, decayVibeResonance and the    *)
(* handlers are synchronous, so the loop takes the next callback only when *)
(* the running one has returned                                            *)
CallStackEmpty == res.resonate.pc = "idle" /\ res.decay.pc = "idle"

(* the store as it is when every running callback has returned *)
Settled(resonate, decay, store) ==
    IF resonate.pc = "idle" /\ decay.pc = "idle" THEN store ELSE res.settled

(* const vibe = this.vibeStore.getVibe(vibeId); if (!vibe) return null *)
ResonateEnter ==
    /\ CallStackEmpty /\ res.resonate.pc = "idle"
    /\ resonated < MaxCallbacks
    /\ resonated' = resonated + 1
    /\ \E vibeId \in IdUniverse :
           res' = [res EXCEPT !.resonate =
                       IF getVibe(vibes, vibeId) = undefined
                       THEN noFrame
                       ELSE [noFrame EXCEPT !.pc = "found", !.vibeId = vibeId, !.before = vibes]]
    /\ UNCHANGED <<vibes, now, nextId>>

(* vibe._internal.resonanceScore += 1 *)
ResonateIncrement ==
    /\ res.resonate.pc = "found"
    /\ vibes' = [vibes EXCEPT ![IndexOf(vibes, res.resonate.vibeId)].resonanceScore =
                                  FAdd(@, One)]
    /\ res' = [res EXCEPT !.resonate.pc = "incremented"]
    /\ UNCHANGED <<now, nextId, resonated>>

(* vibe._internal.lastResonatedAt = Date.now() *)
ResonateStamp ==
    /\ res.resonate.pc = "incremented"
    /\ vibes' = [vibes EXCEPT ![IndexOf(vibes, res.resonate.vibeId)].lastResonatedAt = now]
    /\ res' = [res EXCEPT !.resonate.pc = "stamped"]
    /\ UNCHANGED <<now, nextId, resonated>>

(* this.vibeStore.saveVibe(vibe); return vibe *)
ResonateReturn ==
    /\ res.resonate.pc = "stamped"
    /\ vibes' = saveVibe(vibes, getVibe(vibes, res.resonate.vibeId))
    /\ res' = [res EXCEPT !.resonate = noFrame,
                          !.settled = Settled(noFrame, res.decay, vibes')]
    /\ UNCHANGED <<now, nextId, resonated>>

(* const now = Date.now(); this.vibeStore.getAllActiveVibes().forEach(... *)
DecayEnter ==
    /\ CallStackEmpty /\ res.decay.pc = "idle"
    /\ resonated < MaxCallbacks
    /\ resonated' = resonated + 1
    /\ \E decayRate \in DirectRates :
           LET active == getAllActiveVibes(vibes, now)
           IN  res' = [res EXCEPT !.decay =
                           [noFrame EXCEPT !.pc = "forEach", !.decayRate = decayRate,
                                           !.now = now, !.before = vibes,
                                           !.todo = [k \in 1..Len(active) |-> active[k].id]]]
    /\ UNCHANGED <<vibes, now, nextId>>

(* hoursSinceLastResonance and the test on it; decayAmount when it passes *)
DecayAmount ==
    /\ res.decay.pc = "forEach" /\ res.decay.todo # <<>>
    /\ LET vibe == getVibe(vibes, Head(res.decay.todo))
           hoursSinceLastResonance == FDiv(res.decay.now - vibe.lastResonatedAt, HOUR_MS)
       IN  res' = IF FLess(One, hoursSinceLastResonance)
                  THEN [res EXCEPT !.decay.pc = "amount",
                                   !.decay.decayAmount =
                                       FMul(FMul(vibe.resonanceScore, res.decay.decayRate),
                                            hoursSinceLastResonance)]
                  ELSE [res EXCEPT !.decay.todo = Tail(@)]
    /\ UNCHANGED <<vibes, now, nextId, resonated>>

(* vibe._internal.resonanceScore = Math.max(0, ... - decayAmount); saveVibe(vibe) *)
DecayAssign ==
    /\ res.decay.pc = "amount"
    /\ vibes' = [vibes EXCEPT ![IndexOf(vibes, Head(res.decay.todo))].resonanceScore =
                                  MathMax2(Zero, FSub(@, res.decay.decayAmount))]
    /\ res' = [res EXCEPT !.decay.pc = "forEach", !.decay.todo = Tail(@),
                          !.decay.decayAmount = Zero]
    /\ UNCHANGED <<now, nextId, resonated>>

(* the forEach is through: decayVibeResonance returns *)
DecayReturn ==
    /\ res.decay.pc = "forEach" /\ res.decay.todo = <<>>
    /\ res' = [res EXCEPT !.decay = noFrame,
                          !.settled = Settled(res.resonate, noFrame, vibes)]
    /\ UNCHANGED <<vibes, now, nextId, resonated>>

ReadVibe_anyTime ==
    \* variant: the read does not wait for the running callback to return
    /\ resonated < MaxCallbacks
    /\ resonated' = resonated + 1
    /\ \E id \in IdUniverse :
           LET vibe == getVibe(vibes, id)
           IN  res' = [res EXCEPT !.read =
                           [op |-> "getVibe",
                            seen |-> IF vibe = undefined THEN <<>> ELSE <<vibe>>,
                            settled |-> res.settled]]
    /\ UNCHANGED <<vibes, now, nextId>>

(* a read, start to return: vibeStore.getVibe(id) *)
ReadVibe ==
    /\ CallStackEmpty
    /\ resonated < MaxCallbacks
    /\ resonated' = resonated + 1
    /\ \E id \in IdUniverse :
           LET vibe == getVibe(vibes, id)
           IN  res' = [res EXCEPT !.read =
                           [op |-> "getVibe",
                            seen |-> IF vibe = undefined THEN <<>> ELSE <<vibe>>,
                            settled |-> res.settled]]
    /\ UNCHANGED <<vibes, now, nextId>>

(* a read, start to return: vibeStore.getAllActiveVibes(), which the stream *)
(* ranking sorts                                                            *)
ReadAllActive ==
    /\ CallStackEmpty
    /\ resonated < MaxCallbacks
    /\ resonated' = resonated + 1
    /\ res' = [res EXCEPT !.read = [op |-> "getAllActiveVibes",
                                    seen |-> getAllActiveVibes(vibes, now),
                                    settled |-> res.settled]]
    /\ UNCHANGED <<vibes, now, nextId>>

LoopNext ==
    \/ ResonateEnter
    \/ ResonateIncrement
    \/ ResonateStamp
    \/ ResonateReturn
    \/ DecayEnter
    \/ DecayAmount
    \/ DecayAssign
    \/ DecayReturn
    \/ ReadVibe
    \/ ReadAllActive

LoopSpec == LoopInit /\ [][LoopNext]_vars

---------------------------------------------------------------------------
(* The store's interval timer over the life of its owner.  The constructor  *)
(* arms setInterval and drops the handle; the store has no method that      *)
(* clears it.  res holds whether the owner (runDemo) has returned and how   *)
(* many times the timer's callback has run.                                 *)

MaxTimerRuns == 3    \* callbacks of the interval timer followed in one run

Lifecycle(ownerReturned, timerRuns) ==
    [op |-> "lifecycle", ownerReturned |-> ownerReturned, timerRuns |-> timerRuns]

(* the store some time after construction: right after, or an hour before *)
(* the Vibes of start-up expire                                           *)
TimerInit ==
    /\ now \in {0, VIBE_LIFESPAN_MS - HOUR_MS}
    /\ vibes \in DirectStores(now)
    /\ nextId = Len(vibes) + 1
    /\ resonated = 0
    /\ res = Lifecycle(FALSE, 0)

(* an hour passes and the callback of setInterval runs: deleteExpiredVibes() *)
TimerFires ==
    /\ res.timerRuns < MaxTimerRuns
    /\ now' = now + HOUR_MS
    /\ vibes' = deleteExpiredVibes(vibes, now')
    /\ res' = [res EXCEPT !.timerRuns = @ + 1]
    /\ UNCHANGED <<nextId, resonated>>

(* runDemo comes to its end: the last statement using the store has run *)
OwnerReturns ==
    /\ ~res.ownerReturned
    /\ res' = [res EXCEPT !.ownerReturned = TRUE]
    /\ UNCHANGED <<vibes, now, nextId, resonated>>

(* vibeStore.clear(), the one reset the store offers *)
CallClear ==
    /\ vibes # <<>>
    /\ vibes' = <<>>
    /\ UNCHANGED <<now, nextId, resonated, res>>

TimerNext ==
    \/ TimerFires
    \/ OwnerReturns
    \/ CallClear

TimerSpec == TimerInit /\ [][TimerNext]_vars

---------------------------------------------------------------------------
(* The start-up script (start-enhanced.sh), statement by statement up to    *)
(* the point where the four servers are launched.  The ports and the        *)
(* servers are the environment: a port is free or not, a health check is    *)
(* answered or not.  res holds where the script is, which servers it has    *)
(* launched, which of them answered, and its exit status (<<>> while it     *)
(* runs); which ports have a listener at the start is drawn in StartupInit. *)

timeout == 30    \* wait_for_service: local timeout=30, tries of curl two seconds apart

Services ==
    <<[name |-> "Port Registry", port |-> 4110, waitedFor |-> TRUE],
      [name |-> "Service Orchestrator", port |-> 5000, waitedFor |-> TRUE],
      [name |-> "Launch Server", port |-> 6110, waitedFor |-> FALSE],
      [name |-> "Dashboard Server", port |-> 9111, waitedFor |-> FALSE]>>

Script(listening, pc, k, count, started, answered, inUse, gaveUp, exitCode) ==
    [op |-> "start-enhanced.sh", listening |-> listening, pc |-> pc, k |-> k, count |-> count,
     started |-> started, answered |-> answered, inUse |-> inUse, gaveUp |-> gaveUp,
     exitCode |-> exitCode]

(* lsof -Pi :port -sTCP:LISTEN finds no listener *)
is_port_free(port) == port \notin res.listening

StartupInit ==
    /\ vibes = <<>>
    /\ now = 0
    /\ nextId = 1
    /\ resonated = 0
    /\ \E listening \in SUBSET {Services[k].port : k \in 1..Len(Services)} :
           res = Script(listening, "prerequisites", 0, 0, <<>>, {}, 0, 0, <<>>)

(* exit n *)
exit(n) == [res EXCEPT !.pc = "exited", !.exitCode = <<n>>]

(* after the block of service k: the block of the next one, or the rest *)
proceed(script) ==
    IF script.k < Len(Services)
    THEN [script EXCEPT !.pc = "start", !.k = @ + 1, !.count = 0]
    ELSE [script EXCEPT !.pc = "start-all", !.count = 0]

(* python3, pip, docker and the Docker daemon are looked for *)
CheckPrerequisites ==
    /\ res.pc = "prerequisites"
    /\ \E found \in BOOLEAN :
           res' = IF found THEN [res EXCEPT !.pc = "prepare"] ELSE exit(1)
    /\ UNCHANGED <<vibes, now, nextId, resonated>>

(* stop_existing_services kills the listeners it is allowed to kill (kill  *)
(* -9 ... || true); then pip install and Redis: under set -e a failing pip *)
(* or docker run ends the script                                           *)
Prepare ==
    /\ res.pc = "prepare"
    /\ \E left \in SUBSET res.listening, installed \in BOOLEAN :
           LET stopped == [res EXCEPT !.listening = left]
           IN  res' = IF installed
                      THEN [stopped EXCEPT !.pc = "start", !.k = 1]
                      ELSE [stopped EXCEPT !.pc = "exited", !.exitCode = <<1>>]
    /\ UNCHANGED <<vibes, now, nextId, resonated>>

(* if is_port_free PORT; then python SERVER.py & ...; else exit 1.  The    *)
(* Launch Server and the Dashboard Server are probed once and the script  *)
(* goes on with a warning when they do not answer.                        *)
StartService ==
    /\ res.pc = "start"
    /\ res' = IF ~is_port_free(Services[res.k].port)
              THEN [exit(1) EXCEPT !.inUse = res.k]
              ELSE LET launched == [res EXCEPT !.started = Append(@, Services[res.k].name)]
                   IN  IF Services[res.k].waitedFor
                       THEN [launched EXCEPT !.pc = "wait", !.count = 0]
                       ELSE proceed(launched)
    /\ UNCHANGED <<vibes, now, nextId, resonated>>

wait_for_service_warnsOnly ==
    \* variant: a server that does not answer in time is passed over with a warning
    /\ res.pc = "wait"
    /\ \E answers \in BOOLEAN :
           res' = IF answers
                  THEN proceed([res EXCEPT !.answered = @ \cup {Services[res.k].name}])
                  ELSE IF res.count + 1 < timeout
                  THEN [res EXCEPT !.count = @ + 1]
                  ELSE proceed([res EXCEPT !.gaveUp = res.k])
    /\ UNCHANGED <<vibes, now, nextId, resonated>>

(* one turn of the loop of wait_for_service: curl on /health answers, or   *)
(* sleep 2 and count up; after timeout turns return 1, and the caller     *)
(* exits with 1                                                           *)
wait_for_service ==
    /\ res.pc = "wait"
    /\ \E answers \in BOOLEAN :
           res' = IF answers
                  THEN proceed([res EXCEPT !.answered = @ \cup {Services[res.k].name}])
                  ELSE IF res.count + 1 < timeout
                  THEN [res EXCEPT !.count = @ + 1]
                  ELSE [exit(1) EXCEPT !.count = res.count + 1, !.gaveUp = res.k]
    /\ UNCHANGED <<vibes, now, nextId, resonated>>

(* curl -X POST .../orchestrator/start-all and what follows: under set -e a *)
(* failing curl ends the script with curl's status (7: could not connect);  *)
(* otherwise the script stays up waiting for the orchestrator               *)
StartAll ==
    /\ res.pc = "start-all"
    /\ \E connected \in BOOLEAN :
           res' = IF connected THEN [res EXCEPT !.pc = "serving"] ELSE exit(7)
    /\ UNCHANGED <<vibes, now, nextId, resonated>>

StartupNext ==
    \/ CheckPrerequisites
    \/ Prepare
    \/ StartService
    \/ wait_for_service
    \/ StartAll

StartupSpec == StartupInit /\ [][StartupNext]_vars

---------------------------------------------------------------------------
(* The dashboard's service worker: its fetch listener, one step per promise *)
(* that settles.  The network is the environment: fetch resolves with the   *)
(* server's answer, whatever its HTTP status, or rejects.  res holds the    *)
(* Cache, the request being handled, the cache.put calls that were started  *)
(* and not yet done, and what respondWith was given.                        *)

MaxEvents == 2

urlsToCache == {"/", "/index.html", "/offline.html", "/projects.json", "/manifest.webmanifest"}

Urls == {"/projects.json", "/projects.json?t=1", "/release-port", "/index.html"}

(* event.request.url.includes('/projects.json') *)
includesProjectsJson(url) == url \in {"/projects.json", "/projects.json?t=1"}

(* event.request.url.includes('/release-port') *)
includesReleasePort(url) == url = "/release-port"

(* a response: where it came from, its status and its body, a JSON array    *)
(* (<<0>> is the copy taken at install, <<n>> the server's answer to the    *)
(* n-th request)                                                            *)
HttpResponse(url, status, n) == [url |-> url, status |-> status, body |-> <<n>>]

(* new Response(JSON.stringify([]), {headers: {'Content-Type': 'application/json'}}) *)
EmptyArray == [url |-> "", status |-> 200, body |-> <<>>]

Worker(cache, pc, url, events, putting, answer) ==
    [op |-> "service worker", cache |-> cache, pc |-> pc, url |-> url, events |-> events,
     putting |-> putting, answer |-> answer]

(* after install the Cache holds the urlsToCache; entries may have been *)
(* deleted since                                                         *)
WorkerInit ==
    /\ vibes = <<>>
    /\ now = 0
    /\ nextId = 1
    /\ resonated = 0
    /\ \E kept \in SUBSET urlsToCache :
           res = Worker([u \in Urls \cup urlsToCache |->
                            IF u \in kept THEN HttpResponse(u, 200, 0) ELSE undefined],
                        "idle", "", 0, {}, undefined)

(* caches.match(key) *)
match(key) == res.cache[key]

fallback_noDefault(cached) ==
    \* variant: nothing is made up when the cache has no copy
    cached

(* response => response ? response : new Response("[]") *)
fallback(cached) ==
    IF cached # undefined THEN cached ELSE EmptyArray

(* the listener is called with a request and picks its strategy *)
FetchEvent ==
    /\ res.pc = "idle"
    /\ res.events < MaxEvents
    /\ \E url \in Urls :
           res' = [res EXCEPT !.url = url, !.events = @ + 1, !.answer = undefined,
                              !.pc = IF includesProjectsJson(url) \/ includesReleasePort(url)
                                     THEN "fetch" ELSE "match"]
    /\ UNCHANGED <<vibes, now, nextId, resonated>>

(* fetch(event.request) resolves.  Network first: a clone is handed to      *)
(* cache.put, which is not waited for, and the response is the answer.      *)
(* Cache first: the response is the answer.                                 *)
FetchResolves ==
    /\ res.pc \in {"fetch", "fetch after miss"}
    /\ \E status \in {200, 500} :
           LET response == HttpResponse(res.url, status, res.events)
           IN  res' = IF res.pc = "fetch"
                      THEN [res EXCEPT !.putting = @ \cup {[key |-> res.url, response |-> response]},
                                       !.answer = response, !.pc = "respond"]
                      ELSE [res EXCEPT !.answer = response, !.pc = "respond"]
    /\ UNCHANGED <<vibes, now, nextId, resonated>>

(* fetch(event.request) rejects: the .catch handlers *)
FetchRejects ==
    /\ res.pc \in {"fetch", "fetch after miss"}
    /\ res' = IF res.pc = "fetch after miss"
              THEN [res EXCEPT !.pc = "match offline"]
              ELSE IF includesProjectsJson(res.url)
              THEN [res EXCEPT !.pc = "match projects"]
              ELSE [res EXCEPT !.pc = "match request"]
    /\ UNCHANGED <<vibes, now, nextId, resonated>>

(* a caches.match(...) resolves: the .then handlers *)
CachesMatch ==
    /\ res.pc \in {"match", "match projects", "match request", "match offline"}
    /\ res' = CASE res.pc = "match projects" ->
                       [res EXCEPT !.answer = fallback(match("/projects.json")), !.pc = "respond"]
                [] res.pc = "match request" ->
                       IF match(res.url) # undefined
                       THEN [res EXCEPT !.answer = match(res.url), !.pc = "respond"]
                       ELSE [res EXCEPT !.pc = "match offline"]
                [] res.pc = "match offline" ->
                       [res EXCEPT !.answer = match("/offline.html"), !.pc = "respond"]
                [] res.pc = "match" ->
                       IF match(res.url) # undefined
                       THEN [res EXCEPT !.answer = match(res.url), !.pc = "respond"]
                       ELSE [res EXCEPT !.pc = "fetch after miss"]
    /\ UNCHANGED <<vibes, now, nextId, resonated>>

(* caches.open(CACHE_NAME).then(cache => { cache.put(...) }) is done *)
CachePut ==
    /\ \E put \in res.putting :
           res' = [res EXCEPT !.cache[put.key] = put.response, !.putting = @ \ {put}]
    /\ UNCHANGED <<vibes, now, nextId, resonated>>

(* the promise given to respondWith settles and the page has its answer *)
RespondWith ==
    /\ res.pc = "respond"
    /\ res' = [res EXCEPT !.pc = "idle"]
    /\ UNCHANGED <<vibes, now, nextId, resonated>>

WorkerNext ==
    \/ FetchEvent
    \/ FetchResolves
    \/ FetchRejects
    \/ CachesMatch
    \/ CachePut
    \/ RespondWith

(* Scheduling: the browser settles every fetch one way or the other and    *)
(* every Cache call, and runs the handlers of settled promises.            *)
WorkerSpec ==
    /\ WorkerInit /\ [][WorkerNext]_vars
    /\ WF_vars(FetchResolves \/ FetchRejects)
    /\ WF_vars(CachesMatch)
    /\ WF_vars(CachePut)
    /\ WF_vars(RespondWith)

---------------------------------------------------------------------------
(* Properties *)

StoredIds == {vibes[i].id : i \in 1..Len(vibes)}

ExpiredIds == {vibes[i].id : i \in {j \in 1..Len(vibes) : vibes[j].expiresAt <= now}}

ScoreOf(store, id) == MapGet(store, id).resonanceScore

\* C1: a lookup never returns an expired Vibe.  A GET for an id whose Vibe has
\* expiresAt <= now is answered 404, both while the Vibe is still in the store
\* and after a sweep has removed it; a 200 answer carries a Vibe with expiresAt > now.
C1_LookupNeverReturnsExpired ==
    (res.op = "get" /\ res.vibeId # 0) =>
        /\ res.vibeId \in ExpiredIds => res.status = 404
        /\ res.vibeId \notin StoredIds => res.status = 404
        /\ res.status = 200 =>
               /\ Len(res.vibes) = 1
               /\ res.vibes[1].id = res.vibeId
               /\ res.vibes[1].expiresAt > now

C1_Witness ==
    /\ res.op = "get"
    /\ res.status = 404
    /\ res.vibeId \in ExpiredIds

\* C2: neither getAllActiveVibes nor a personal or collective stream ever holds
\* a Vibe with expiresAt <= now, whether or not a sweep has run since it expired.
C2_ActiveAndStreamsExcludeExpired ==
    /\ \A v \in Range(getAllActiveVibes(vibes, now)) : ~(v.expiresAt <= now)
    /\ res.op \in {"personal", "collective"} =>
           \A v \in Range(res.vibes) : ~(v.expiresAt <= now)

C2_Witness ==
    /\ res.op \in {"personal", "collective"}
    /\ res.vibes # <<>>
    /\ ExpiredIds # {}

\* C3 (as claimed): a resonate on an id that is not stored, or whose Vibe has
\* expiresAt <= now, is answered 404 and leaves the store as it was.
C3_ResonateOnExpiredFails ==
    [][\A vibeId \in IdUniverse :
          (/\ res = idle
           /\ handleResonateVibe(vibeId)
           /\ (vibeId \notin StoredIds \/ vibeId \in ExpiredIds))
          => (res'.status = 404 /\ vibes' = vibes)]_vars

\* C4 (as claimed): a weave of one to three parent ids of which at least one is
\* not stored, or is stored with expiresAt <= now, is answered 404 and leaves
\* the store as it was.
C4_WeaveWithUnresolvedParentFails ==
    [][\A parentVibeIds \in ParentIdLists :
          (/\ res = idle
           /\ Len(parentVibeIds) \in 1..3
           /\ \E k \in 1..Len(parentVibeIds) :
                  parentVibeIds[k] \notin StoredIds \/ parentVibeIds[k] \in ExpiredIds
           /\ handleWeaveVibes(parentVibeIds))
          => (res'.status = 404 /\ vibes' = vibes)]_vars

\* C5: a weave of no parent ids or of more than three is answered 400 and leaves
\* the store as it was, whether or not the ids resolve.
C5_WeaveWithBadCountRejected ==
    [][\A parentVibeIds \in ParentIdLists :
          (/\ res = idle
           /\ (Len(parentVibeIds) = 0 \/ Len(parentVibeIds) > 3)
           /\ handleWeaveVibes(parentVibeIds))
          => (res'.status = 400 /\ vibes' = vibes /\ nextId' = nextId)]_vars

C5_Witness ==
    /\ res.op = "weave"
    /\ res.status = 400
    /\ StoredIds # {}

\* C6: the Vibe a successful weave stores has generation 1 + the largest
\* generation among the parents the ids resolved to.
C6_WovenGenerationIsMaxPlusOne ==
    [][(res = idle /\ res'.op = "weave" /\ res'.status = 201) =>
          \A parentVibeIds \in ParentIdLists :
              handleWeaveVibes(parentVibeIds) =>
                  LET woven == MapGet(vibes', res'.vibeId)
                      gens == {MapGet(vibes, parentVibeIds[k]).generation :
                                  k \in 1..Len(parentVibeIds)}
                  IN  /\ woven # undefined
                      /\ \A g \in gens : woven.generation >= g + 1
                      /\ \E g \in gens : woven.generation = g + 1]_vars

C6_Witness ==
    /\ res.op = "weave"
    /\ res.status = 201
    /\ res.vibes[1].generation = 2
    /\ \E k \in 1..Len(res.vibes[1].parentVibeIds) :
           LET p == MapGet(vibes, res.vibes[1].parentVibeIds[k])
           IN  p # undefined /\ p.generation = 0

\* C7: every stored Vibe has no parents exactly when its generation is 0, and
\* otherwise between one and three parents.
C7_RootsHaveGenerationZero ==
    \A v \in Range(vibes) :
        /\ v.generation >= 0
        /\ (Len(v.parentVibeIds) = 0) <=> (v.generation = 0)
        /\ Len(v.parentVibeIds) # 0 => Len(v.parentVibeIds) \in 1..3

C7_Witness ==
    /\ \E v \in Range(vibes) : v.generation = 0 /\ v.parentVibeIds = <<>>
    /\ \E v \in Range(vibes) : v.generation > 0 /\ Len(v.parentVibeIds) = 3

\* C8: a successful resonate raises the Vibe's score by exactly 1, sets its
\* lastResonatedAt to the time of the call and reports the new score.
C8_ResonateAddsOne ==
    [][\A vibeId \in IdUniverse :
          (/\ res = idle
           /\ handleResonateVibe(vibeId)
           /\ res'.status = 200)
          => LET old == ScoreOf(vibes, vibeId)
                 new == ScoreOf(vibes', vibeId)
             IN  /\ new = FAdd(old, One)
                 /\ old.e >= 0 => MathFloor(new) = MathFloor(old) + 1
                 /\ MapGet(vibes', vibeId).lastResonatedAt = now
                 /\ res'.currentResonanceScore = new]_vars

C8_Witness ==
    /\ res.op = "resonate"
    /\ res.status = 200
    /\ res.currentResonanceScore = FromInt(2)
    /\ MapGet(vibes, res.vibeId).lastResonatedAt = now

\* C9: no stored Vibe ever has a negative resonanceScore.
C9_ScoreNeverNegative ==
    \A v \in Range(vibes) : ~v.resonanceScore.neg

\* the only Vibe ever created was resonated once and then decayed down to 0
C9_Witness ==
    /\ nextId = 2
    /\ resonated = 1
    /\ Len(vibes) = 1
    /\ vibes[1].resonanceScore = Zero
    /\ vibes[1].lastResonatedAt < now

\* C10: no step other than a decay lowers the score of a Vibe that stays stored.
C10_OnlyDecayLowersScore ==
    [][\/ \A id \in StoredIds :
              MapGet(vibes', id) # undefined =>
                  ~FLess(ScoreOf(vibes', id), ScoreOf(vibes, id))
       \/ Decay]_vars

C10_Witness ==
    /\ res.op \in {"weave", "create"}
    /\ res.status = 201
    /\ \E v \in Range(vibes) : FLess(Zero, v.resonanceScore)

Min(a, b) == IF a < b THEN a ELSE b

(* the Vibes a decayVibeResonance call visits and finds older than one hour *)
Decaying(store, t) ==
    {i \in 1..Len(store) :
        store[i].expiresAt > t /\ t - store[i].lastResonatedAt > HOUR_MS}

ExactProduct(a, b) ==
    IF a = Zero \/ b = Zero THEN Zero
    ELSE Canon(a.neg # b.neg, BigMul(a.m, b.m), a.e + b.e)

ExactDifference(a, b) ==
    \* a - b for a >= 0 and b >= 0
    LET e == Min(a.e, b.e)
        x == BigShl(a.m, a.e - e)
        y == BigShl(b.m, b.e - e)
    IN  IF BigCmp(x, y) >= 0 THEN Canon(FALSE, BigSub(x, y), e) ELSE Canon(TRUE, BigSub(y, x), e)

Representable(a) == BigBitLen(a.m) <= SignificandBits

(* what the formula max(0, s - s * rate * h) is worth in the real numbers, *)
(* h being dt clock units                                                  *)
RealDecay(s, rate, dt) ==
    LET d == ExactDifference(s, ExactProduct(ExactProduct(s, rate), FDiv(dt, HOUR_MS)))
    IN  IF d.neg THEN Zero ELSE d

(* rate * h >= 1 in the real numbers, for a rate of 1 at most *)
RateTimesHoursAtLeastOne(rate, dt) ==
    BigCmp(BigMul(rate.m, BigOfInt(dt)), BigShl(BigOfInt(HOUR_MS), -rate.e)) >= 0

\* C12 (as claimed): decay(rate) replaces the score s of every active Vibe last
\* resonated h > 1 hours before by max(0, s - s*rate*h); whenever rate*h >= 1 the
\* score becomes exactly 0.
C12_DecayIsExactlyZeroWhenRateTimesHoursAtLeastOne ==
    res.op = "decayVibeResonance" =>
        \A i \in Decaying(res.before, now) :
            LET dt == now - res.before[i].lastResonatedAt
            IN  RateTimesHoursAtLeastOne(res.arg, dt) => vibes[i].resonanceScore = Zero

\* C12 (amended): decay(rate) replaces the score s of every active Vibe last
\* resonated h > 1 hours before by max(0, s - s*rate*h) as double arithmetic
\* evaluates it: the value of the formula wherever both products and the
\* difference are representable, never negative and never above s; whenever
\* rate*h >= 1 the score becomes 0 or a rounding residue of at most s * 2^-52,
\* and exactly 0 whenever rate >= 1.
C12_DecayFormulaInDoubles ==
    res.op = "decayVibeResonance" =>
        \A i \in Decaying(res.before, now) :
            LET s == res.before[i].resonanceScore
                new == vibes[i].resonanceScore
                dt == now - res.before[i].lastResonatedAt
                h == FDiv(dt, HOUR_MS)
                amount == ExactProduct(ExactProduct(s, res.arg), h)
            IN  /\ ~new.neg /\ ~FLess(s, new)
                /\ vibes[i] = [res.before[i] EXCEPT !.resonanceScore = new]
                /\ (Representable(amount) /\ Representable(ExactDifference(s, amount)))
                       => new = RealDecay(s, res.arg, dt)
                /\ RateTimesHoursAtLeastOne(res.arg, dt)
                       => ~FLess(ExactProduct(s, [neg |-> FALSE, m |-> <<1>>, e |-> -52]), new)
                /\ ~FLess(res.arg, One) => new = Zero

\* C12 witness: decay(0.04) on a Vibe with score 29 last resonated 25 hours
\* before leaves a positive residue; rate * h is 1.
C12_Witness ==
    /\ res.op = "decayVibeResonance" /\ res.arg = FDiv(1, 25)
    /\ \E i \in Decaying(res.before, now) :
           /\ now - res.before[i].lastResonatedAt = 25 * HOUR_MS
           /\ res.before[i].resonanceScore = FromInt(29)
           /\ FLess(Zero, vibes[i].resonanceScore)

\* C17: right after deleteExpiredVibes has run at time t the store holds no Vibe
\* with expiresAt <= t: every Vibe of the store before the call with expiresAt <= t,
\* expiresAt = t included, is gone after this one call, and the others are kept.
C17_SweepLeavesNoExpiredVibe ==
    res.op = "deleteExpiredVibes" =>
        /\ \A i \in 1..Len(vibes) : vibes[i].expiresAt > now
        /\ \A i \in 1..Len(res.before) :
               (res.before[i].expiresAt <= now) <=> (res.before[i] \notin Range(vibes))

\* C17 witness: a sweep at the very instant a Vibe expires removed it and kept
\* the Vibe that expires one tick later.
C17_Witness ==
    /\ res.op = "deleteExpiredVibes"
    /\ Len(res.before) = 2 /\ Len(vibes) = 1
    /\ \E i \in 1..2 : res.before[i].expiresAt = now /\ res.before[i] \notin Range(vibes)
    /\ vibes[1].expiresAt = now + 1

\* C18: saveVibe is an idempotent upsert by id, last writer wins: saving the same
\* Vibe again leaves the store as it is, the store holds exactly one entry under
\* the saved id and it is the Vibe saved last, and the entries under every other
\* id are the ones the store held before.
C18_SaveIsIdempotentUpsert ==
    res.op = "saveVibe" =>
        LET vibe == res.arg
        IN  /\ saveVibe(vibes, vibe) = vibes
            /\ Cardinality({i \in 1..Len(vibes) : vibes[i].id = vibe.id}) = 1
            /\ getVibe(vibes, vibe.id) = vibe
            /\ \A id \in IdUniverse \ {vibe.id} : getVibe(vibes, id) = getVibe(res.before, id)
            /\ StoredIds = {res.before[i].id : i \in 1..Len(res.before)} \cup {vibe.id}

\* C18 witness: a Vibe was saved under an id the store already held with another
\* score; the store still has its two entries and the later Vibe is the one kept.
C18_Witness ==
    /\ res.op = "saveVibe"
    /\ Len(res.before) = 2 /\ Len(vibes) = 2
    /\ getVibe(res.before, res.arg.id) # undefined
    /\ getVibe(res.before, res.arg.id).resonanceScore # res.arg.resonanceScore
    /\ getVibe(vibes, res.arg.id) = res.arg

\* C19: getVibesByIds(ids) returns the stored Vibes of the ids that are present,
\* one per occurrence and in the order of ids; an id that is not stored is left
\* out, and the call returns and leaves the store as it was.
C19_GetManyKeepsInputOrderAndOmitsMissing ==
    res.op = "getVibesByIds" =>
        LET ids == res.arg
            present == {i \in 1..Len(ids) : ids[i] \in StoredIds}
            nth(k) == CHOOSE i \in present : Cardinality({j \in present : j <= i}) = k
        IN  /\ Len(res.result) = Cardinality(present)
            /\ \A k \in 1..Len(res.result) :
                   /\ res.result[k] \in Range(vibes)
                   /\ res.result[k].id = ids[nth(k)]
            /\ vibes = res.before

\* C19 witness: asked for ids 2, 3, 1 with only 1 and 2 stored, the call returned
\* the Vibes 2 and 1 in that order.
C19_Witness ==
    /\ res.op = "getVibesByIds"
    /\ res.arg = <<2, 3, 1>>
    /\ StoredIds = {1, 2}
    /\ Len(res.result) = 2
    /\ res.result[1].id = 2 /\ res.result[2].id = 1

(* the ids uuidv4() has handed out *)
HandedOut == 1..(nextId - 1)

(* a stored Vibe woven from a parent the store no longer holds: the weave *)
(* found the parent, so a sweep has removed it since and kept the child   *)
ParentSweptAway ==
    \E v \in Range(vibes) : \E k \in 1..Len(v.parentVibeIds) :
        v.parentVibeIds[k] \notin StoredIds

\* C15: with the hourly sweep firing again and again, every stored Vibe whose
\* expiresAt has passed is eventually no longer in the store.
C15_ExpiredVibesAreEventuallyRemoved ==
    \A id \in IdUniverse : (id \in ExpiredIds) ~> (id \notin StoredIds)

\* C15 witness: the Vibes of start-up have expired and are gone, the sweep has
\* left the child woven from one of them an hour later, and nothing expired is stored.
C15_Witness ==
    /\ now = VIBE_LIFESPAN_MS
    /\ ParentSweptAway
    /\ ExpiredIds = {}
    /\ res = idle

\* C16: no Vibe is resurrected: an id that was handed out and is no longer
\* stored is not stored after any further step, and no lookup answers 200 for it.
C16_NoResurrection ==
    [][\A id \in HandedOut :
           id \notin StoredIds =>
               /\ id \notin {vibes'[i].id : i \in 1..Len(vibes')}
               /\ ~(res'.op = "get" /\ res'.status = 200 /\ res'.vibeId = id)]_vars

\* C16 witness: after a sweep removed a parent, its child was resonated with and
\* answered 200; the parent's id is still not stored.
C16_Witness ==
    /\ ParentSweptAway
    /\ res.op = "resonate" /\ res.status = 200
    /\ \E v \in Range(vibes) :
           /\ v.id = res.vibeId
           /\ v.parentVibeIds # <<>>
           /\ \A k \in 1..Len(v.parentVibeIds) : v.parentVibeIds[k] \notin StoredIds

\* C20: every stored Vibe has expiresAt = createdAt + 48 hours, whatever has been
\* created, woven, resonated with, decayed or swept since.
C20_LifespanIsFixedAtCreation ==
    \A v \in Range(vibes) : v.expiresAt = v.createdAt + 48 * HOUR_MS

\* C20 witness: a Vibe created an hour after start-up was resonated with, decayed
\* 47 hours later and resonated with again; its expiry is still creation + 48 h.
C20_Witness ==
    \E v \in Range(vibes) :
        /\ v.createdAt = HOUR_MS
        /\ v.lastResonatedAt = VIBE_LIFESPAN_MS
        /\ v.resonanceScore.e < 0
        /\ v.expiresAt = HOUR_MS + VIBE_LIFESPAN_MS

ActiveIds == {v.id : v \in Range(getAllActiveVibes(vibes, now))}

NoRepeats(ids) == \A j, k \in 1..Len(ids) : ids[j] = ids[k] => j = k

\* C13: for every limit >= 1 the collective stream is a list of ids of active
\* Vibes, without repeats, in non-increasing score order, of length
\* min(limit, number of active Vibes), and no active Vibe left out has a score
\* strictly greater than one that is returned.
C13_CollectiveIsTopByScore ==
    \A limit \in 1..MaxLimit :
        \A ids \in getStreamVibes(vibes, "collective", limit, now) :
            /\ Len(ids) = Min(limit, Cardinality(ActiveIds))
            /\ Range(ids) \subseteq ActiveIds
            /\ NoRepeats(ids)
            /\ \A k \in 1..(Len(ids) - 1) :
                   ~FLess(ScoreOf(vibes, ids[k]), ScoreOf(vibes, ids[k + 1]))
            /\ \A id \in ActiveIds \ Range(ids) : \A k \in 1..Len(ids) :
                   ~FLess(ScoreOf(vibes, ids[k]), ScoreOf(vibes, id))

\* a collective answer of two Vibes out of three active ones, the later-created
\* Vibe ranked first because its score is strictly higher
C13_Witness ==
    /\ res.op = "collective"
    /\ res.status = 200
    /\ Len(res.vibes) = 2
    /\ Cardinality(ActiveIds) = 3
    /\ res.vibes[1].id > res.vibes[2].id
    /\ FLess(res.vibes[2].resonanceScore, res.vibes[1].resonanceScore)

\* C14: for every limit >= 1 the personal stream is a list of at most limit ids
\* of active Vibes without repeats; its first min(floor(limit * 0.7), number of
\* active Vibes) ids are the highest-scoring active Vibes in non-increasing
\* score order, and every id after them is one of the remaining active Vibes.
C14_PersonalIsPopularThenDiscovery ==
    (res.op = "getStreamVibes" /\ res.arg[1] = "personal") =>
        LET limit == res.arg[2]
            ids == res.result
            floor70 == CHOOSE f \in 0..limit : 10 * f <= 7 * limit /\ 7 * limit < 10 * (f + 1)
            popular == Min(floor70, Cardinality(ActiveIds))
            popularIds == {ids[k] : k \in 1..popular}
        IN  /\ Len(ids) <= limit
            /\ Len(ids) >= popular
            /\ Range(ids) \subseteq ActiveIds
            /\ NoRepeats(ids)
            /\ \A k \in 1..(popular - 1) :
                   ~FLess(ScoreOf(vibes, ids[k]), ScoreOf(vibes, ids[k + 1]))
            /\ \A id \in ActiveIds \ popularIds : \A k \in 1..popular :
                   ~FLess(ScoreOf(vibes, ids[k]), ScoreOf(vibes, id))
            /\ \A k \in (popular + 1)..Len(ids) : ids[k] \in ActiveIds \ popularIds

\* C24: the Vibe a successful weave stores lists the requested parent ids in the
\* order given, starts with resonanceScore 0 whatever its parents' scores are,
\* and has lastResonatedAt = createdAt, the time of the weave.
C24_WovenVibeStartsFresh ==
    [][(res = idle /\ res'.op = "weave" /\ res'.status = 201) =>
          \A parentVibeIds \in ParentIdLists :
              handleWeaveVibes(parentVibeIds) =>
                  LET woven == MapGet(vibes', res'.vibeId)
                  IN  /\ woven # undefined
                      /\ woven.parentVibeIds = parentVibeIds
                      /\ woven.resonanceScore = Zero
                      /\ woven.createdAt = now
                      /\ woven.lastResonatedAt = woven.createdAt]_vars

\* C24 witness: a Vibe woven from parents 2 and 1, in that order, of which one
\* had been resonated with; the woven Vibe has score 0.
C24_Witness ==
    /\ res.op = "weave" /\ res.status = 201
    /\ res.vibes[1].parentVibeIds = <<2, 1>>
    /\ \E id \in {1, 2} : MapGet(vibes, id) # undefined /\ FLess(Zero, ScoreOf(vibes, id))
    /\ ScoreOf(vibes, res.vibeId) = Zero

\* C25: a create request without visual or without audio parameters, or with a
\* visual intensity or an audio volume outside 0..100, is answered 400 and the
\* store after it is the store before it.
C25_InvalidCreateIsRejected ==
    [][\A body \in CreateBodies :
          (/\ res = idle
           /\ \/ body.visual = undefined
              \/ body.audio = undefined
              \/ body.visual.intensity \notin 0..100
              \/ body.audio.volume \notin 0..100
           /\ handleCreateVibe(body))
          => (res'.status = 400 /\ vibes' = vibes)]_vars

\* C25 witness: a create was answered 400 while the store held a Vibe.
C25_Witness ==
    /\ res.op = "create" /\ res.status = 400
    /\ Len(vibes) = 1

(* 1 - rate * h in the real numbers, h being dt clock units *)
KeptShare(rate, dt) == ExactDifference(One, ExactProduct(rate, FDiv(dt, HOUR_MS)))

(* |a - b| <= c for a, b, c >= 0 *)
Within(a, b, c) ==
    LET d == ExactDifference(a, b)
    IN  ~FLess(c, [d EXCEPT !.neg = FALSE])

\* C26: two decay(rate) calls at the same instant both act on a Vibe last
\* resonated h > 1 hours before: with 0 < rate*h < 1 a positive score s ends up
\* at s * (1 - rate*h)^2, below what one call leaves, because lastResonatedAt is
\* not touched.  The value is the exact one wherever the arithmetic of both calls
\* is exact, and within s * 2^-50 of it otherwise.
C26_DecayCompounds ==
    res.op = "decayVibeResonance twice" =>
        \A i \in Decaying(res.before, now) :
            LET s == res.before[i].resonanceScore
                new == vibes[i].resonanceScore
                dt == now - res.before[i].lastResonatedAt
                keep == KeptShare(res.arg, dt)
                once == ExactProduct(s, keep)
                twice == ExactProduct(once, keep)
            IN  (~RateTimesHoursAtLeastOne(res.arg, dt) /\ FLess(Zero, s)) =>
                    /\ vibes[i].lastResonatedAt = res.before[i].lastResonatedAt
                    /\ FLess(Zero, new) /\ FLess(new, once)
                    /\ Within(new, twice, ExactProduct(s, [neg |-> FALSE, m |-> <<1>>, e |-> -50]))
                    /\ (Representable(once) /\ Representable(twice)
                        /\ Representable(ExactProduct(ExactProduct(s, res.arg), FDiv(dt, HOUR_MS)))
                        /\ Representable(ExactProduct(ExactProduct(once, res.arg), FDiv(dt, HOUR_MS))))
                           => new = twice

\* C26 witness: decay(0.5) twice on a Vibe with score 3 last resonated an hour
\* and a half before: 3 * 0.25 * 0.25 = 0.1875 is left.
C26_Witness ==
    /\ res.op = "decayVibeResonance twice" /\ res.arg = FDiv(1, 2)
    /\ \E i \in Decaying(res.before, now) :
           /\ now - res.before[i].lastResonatedAt = HOUR_MS + 1
           /\ res.before[i].resonanceScore = FromInt(3)
           /\ vibes[i].resonanceScore = FDiv(3, 16)

(* the parents of the weave res records, in the order they were asked for *)
WovenFrom == [k \in 1..Len(res.arg) |-> MapGet(res.before, res.arg[k])]

Wove == res.op = "weaveVibes" /\ res.result # null

ExactAdd(a, b) ==
    IF a = Zero THEN b
    ELSE IF b = Zero THEN a
    ELSE LET e == Min(a.e, b.e)
             x == BigShl(a.m, a.e - e)
             y == BigShl(b.m, b.e - e)
         IN  IF a.neg = b.neg THEN Canon(a.neg, BigAdd(x, y), e)
             ELSE IF BigCmp(x, y) >= 0 THEN Canon(a.neg, BigSub(x, y), e)
             ELSE Canon(b.neg, BigSub(y, x), e)

ExactSum(xs) ==
    LET RECURSIVE upTo(_)
        upTo(k) == IF k = 0 THEN Zero ELSE ExactAdd(upTo(k - 1), xs[k])
    IN  upTo(Len(xs))

(* the integer nearest to total / n in the real numbers, a half going up: *)
(* floor(total / n + 1/2)                                                  *)
NearestHalvesUp(total, n) ==
    LET e == Min(total.e, 0)
        scale == 2^(-e)
        numerator == (IF total.neg THEN -1 ELSE 1) * BigToInt(BigShl(total.m, total.e - e))
    IN  (2 * numerator + n * scale) \div (2 * n * scale)

Clamped(k) == IF k < 0 THEN 0 ELSE IF k > 100 THEN 100 ELSE k

MeanLevel(levels) == FromInt(Clamped(NearestHalvesUp(ExactSum(levels), Len(levels))))

\* C22: the woven visual.intensity is the mean of the parents' intensities
\* rounded to the nearest integer, halves up, and kept within 0..100; the woven
\* audio.volume is the same of the parents' volumes.
C22_WovenLevelsAreRoundedMeans ==
    Wove =>
        /\ res.result.visual.intensity =
               MeanLevel([k \in 1..Len(res.arg) |-> WovenFrom[k].visual.intensity])
        /\ res.result.audio.volume =
               MeanLevel([k \in 1..Len(res.arg) |-> WovenFrom[k].audio.volume])

\* C22 witness: parents with intensities 60 and 85 and volumes 70 and 85 give a
\* woven intensity of 73 (72.5 going up) and a volume of 78.
C22_Witness ==
    /\ Wove /\ Len(res.arg) = 2
    /\ WovenFrom[1].visual.intensity = FromInt(60) /\ WovenFrom[2].visual.intensity = FromInt(85)
    /\ res.result.visual.intensity = FromInt(73)
    /\ res.result.audio.volume = FromInt(78)
    /\ MapGet(vibes, res.result.id) = res.result

(* the parents' palettes of the weave res records, one after the other *)
PooledColors == flatMap([k \in 1..Len(res.arg) |-> WovenFrom[k].visual.palette])

(* the colours of a pool that are colours, as RGB triples, repeats kept *)
RgbOf(pool) == SelectSeq([k \in 1..Len(pool) |-> hexToRgb(pool[k])], LAMBDA c : c # null)

\* C23: weaving parents whose pooled palettes hold at least two distinct colours
\* gives a palette of exactly 3 colours, no two alike, whatever the random picks.
C23_WovenPaletteHasThreeDistinctColours ==
    (Wove /\ Cardinality(Range(RgbOf(PooledColors))) >= 2) =>
        /\ Len(res.result.visual.palette) = 3
        /\ NoRepeats(res.result.visual.palette)

\* C27 (as claimed): the pool is deduplicated before it is blended, so the first
\* woven colour is the component-wise average over the distinct pool colours,
\* taken here with any rounding to a neighbouring integer.
C27_FirstColourAveragesDistinctPoolColours ==
    (Wove /\ Len(PooledColors) >= 2 /\ RgbOf(PooledColors) # <<>>) =>
        LET distinct == Dedupe(RgbOf(PooledColors))
            n == Len(distinct)
            first == hexToRgb(res.result.visual.palette[1])
        IN  \A k \in 1..3 :
                LET total == MathSum([i \in 1..n |-> distinct[i][k]])
                IN  first[k] * n - total < n /\ total - first[k] * n < n

\* C27 (amended): the pool is the parents' palettes one after the other, repeats
\* kept.  With two entries or more, the first woven colour is the component-wise
\* average over every entry that is a colour, rounded to nearest with halves up,
\* so a colour found in k palettes counts k times; the palette is empty when no
\* entry is a colour, and a pool of one entry is returned as it is.
C27_FirstColourAveragesEveryPoolEntry ==
    Wove =>
        LET all == RgbOf(PooledColors)
            n == Len(all)
            palette == res.result.visual.palette
        IN  IF Len(PooledColors) <= 1 THEN palette = PooledColors
            ELSE IF n = 0 THEN palette = <<>>
            ELSE /\ Len(palette) \in 1..3
                 /\ hexToRgb(palette[1]) =
                        [k \in 1..3 |->
                            NearestHalvesUp(FromInt(MathSum([i \in 1..n |-> all[i][k]])), n)]

\* C27 witness: black is in the palettes of two parents and red in one of them:
\* the first woven colour is #550000, a third of the way to red.
C27_Witness ==
    /\ Wove
    /\ PooledColors = <<Black, Black, Red>>
    /\ res.result.visual.palette[1] = <<5, 5, 0, 0, 0, 0>>

(* the haptic and the text channels of the parents that have one, a parent *)
(* asked for twice counted twice                                           *)
ParentHaptics ==
    SelectSeq([k \in 1..Len(res.arg) |-> WovenFrom[k].haptic], LAMBDA h : h # undefined)

ParentTexts(store, parentVibeIds) ==
    SelectSeq([k \in 1..Len(parentVibeIds) |-> MapGet(store, parentVibeIds[k]).text],
              LAMBDA x : x # undefined)

C29_TextFieldsArePickedIndependently ==
    /\ Wove =>
           LET texts == ParentTexts(res.before, res.arg)
           IN  IF texts = <<>> THEN res.result.text = undefined
               ELSE /\ res.result.text # undefined
                    /\ \E i \in 1..Len(texts) : res.result.text.content = texts[i].content
                    /\ \E i \in 1..Len(texts) : res.result.text.fontStyle = texts[i].fontStyle
                    /\ \E i \in 1..Len(texts) : res.result.text.color = texts[i].color
    /\ res = idle =>
           \A parentVibeIds \in ParentIdLists :
               LET outcomes == weaveVibes_blended(vibes, parentVibeIds, uuidv4, now)
               IN  null \notin outcomes =>
                       LET texts == ParentTexts(vibes, parentVibeIds)
                       IN  \A i, j, k \in 1..Len(texts) :
                               \E wovenVibe \in outcomes :
                                   wovenVibe.text = [content |-> texts[i].content,
                                                     fontStyle |-> texts[j].fontStyle,
                                                     color |-> texts[k].color]

\* C29 witness: a woven text with the content and the font of one parent and the
\* colour of another.
C29_Witness ==
    /\ Wove
    /\ res.result.text = [content |-> "calm", fontStyle |-> "serif", color |-> Black]
    /\ \A k \in 1..Len(res.arg) : WovenFrom[k].text # res.result.text

Running(frame) == frame.pc # "idle"

\* C21: a resonate and a decay sweep never interleave their statements: the two
\* are never running at once, each starts from the store the last callback to
\* return left, and when it returns the store is what the whole operation makes
\* of the store it started from, so no increment and no reduction is lost.
C21_MutationsOfOneVibeAreSerialized ==
    [][/\ ~(Running(res.resonate) /\ Running(res.decay))
       /\ (~Running(res.resonate) /\ Running(res'.resonate)) => vibes = res.settled
       /\ (~Running(res.decay) /\ Running(res'.decay)) => vibes = res.settled
       /\ (Running(res.resonate) /\ ~Running(res'.resonate)) =>
              vibes' = saveVibe(res.resonate.before,
                                resonateWithVibe(res.resonate.before, res.resonate.vibeId, now))
       /\ (Running(res.decay) /\ ~Running(res'.decay)) =>
              vibes' = decayVibeResonance(res.decay.before, res.decay.decayRate, res.decay.now)
      ]_vars

\* C21 witness: a decay(0.5) and then a resonate on a Vibe of score 3 last
\* resonated an hour and a half before: 3 * 0.25 + 1 = 1.75, stamped with now.
C21_Witness ==
    /\ res.op = "loop" /\ CallStackEmpty /\ resonated = 2
    /\ res.settled = vibes
    /\ \E i \in 1..Len(vibes) :
           /\ vibes[i].resonanceScore = FDiv(7, 4)
           /\ vibes[i].lastResonatedAt = now

\* C30: every Vibe a read returns is that Vibe as the last callback to return
\* left it: the state before or after a whole resonate or decay, never a score
\* already incremented next to a lastResonatedAt not yet renewed.
C30_ReadsSeeWholeVibes ==
    res.op = "loop" =>
        \A k \in 1..Len(res.read.seen) :
            res.read.seen[k] = MapGet(res.read.settled, res.read.seen[k].id)

\* C30 witness: a getVibe after a resonate on a Vibe of score 3 returns score 4
\* together with the new lastResonatedAt.
C30_Witness ==
    /\ res.op = "loop" /\ res.read.op = "getVibe"
    /\ Len(res.read.seen) = 1
    /\ res.read.seen[1].resonanceScore = FromInt(4)
    /\ res.read.seen[1].lastResonatedAt = now
    /\ res.read.seen[1].createdAt < now

\* C31: a successful weave writes one new entity and nothing else: the id of the
\* woven Vibe is none of the ids in the store, every Vibe stored before (the
\* parents included) is stored unchanged after, and the store holds one more.
C31_WeaveOnlyAddsOneVibe ==
    [][(res = idle /\ res'.op = "weave" /\ res'.status = 201) =>
          /\ res'.vibeId \notin StoredIds
          /\ Len(vibes') = Len(vibes) + 1
          /\ \A i \in 1..Len(vibes) : MapGet(vibes', vibes[i].id) = vibes[i]
          /\ MapGet(vibes', res'.vibeId) = res'.vibes[1]]_vars

\* C31 witness: a weave of two stored parents, one of them resonated with, next
\* to which the store holds the woven Vibe as a third entry.
C31_Witness ==
    /\ res.op = "weave" /\ res.status = 201
    /\ Len(vibes) = 3
    /\ Len(res.vibes[1].parentVibeIds) = 2
    /\ res.vibes[1].parentVibeIds[1] # res.vibes[1].parentVibeIds[2]
    /\ \E k \in 1..2 : FLess(Zero, ScoreOf(vibes, res.vibes[1].parentVibeIds[k]))

\* C33: resonate(id) changes the resonanceScore and the lastResonatedAt of that
\* one Vibe and nothing else; decay changes resonanceScore only.  Ids, createdAt,
\* expiresAt, generation, parentVibeIds, the sensory channels and every other
\* Vibe are as before, and so is the order of the store.
C33_ResonateAndDecayTouchOnlyTheirFields ==
    /\ (res.op = "resonateWithVibe" /\ res.result # null) =>
           /\ Len(vibes) = Len(res.before)
           /\ \A i \in 1..Len(vibes) :
                  IF res.before[i].id = res.arg
                  THEN vibes[i] = [res.before[i] EXCEPT
                                       !.resonanceScore = vibes[i].resonanceScore,
                                       !.lastResonatedAt = vibes[i].lastResonatedAt]
                  ELSE vibes[i] = res.before[i]
    /\ (res.op = "resonateWithVibe" /\ res.result = null) => vibes = res.before
    /\ res.op = "decayVibeResonance" =>
           /\ Len(vibes) = Len(res.before)
           /\ \A i \in 1..Len(vibes) :
                  vibes[i] = [res.before[i] EXCEPT !.resonanceScore = vibes[i].resonanceScore]

\* C33 witness: a decay that lowered the score of a Vibe with haptic and text
\* channels, in a store where a resonate would find a second Vibe.
C33_Witness ==
    /\ res.op = "decayVibeResonance" /\ Len(vibes) >= 2
    /\ \E i \in 1..Len(vibes) :
           /\ FLess(vibes[i].resonanceScore, res.before[i].resonanceScore)
           /\ vibes[i].haptic # undefined /\ vibes[i].text # undefined
           /\ vibes[i].lastResonatedAt = 0

\* C34: no Vibe is removed early.  Whatever the step (create, weave, resonate,
\* get, stream, decay, expiry sweep, the clock moving on), a stored Vibe whose
\* expiresAt is still ahead stays stored as long as the store is not cleared, and
\* a GET for a stored Vibe with expiresAt ahead is answered 200 with that Vibe.
C34_NoVibeIsRemovedEarly ==
    [][/\ Clear \/ \A i \in 1..Len(vibes) :
                       vibes[i].expiresAt > now => MapGet(vibes', vibes[i].id) # undefined
       /\ (res = idle /\ res'.op = "get" /\ res'.vibeId \in ActiveIds) =>
              (res'.status = 200 /\ res'.vibes = <<MapGet(vibes, res'.vibeId)>>)]_vars

\* C34 witness: a woven Vibe, two ticks short of its expiry, is fetched with 200
\* after the sweep took a parent of it away.
C34_Witness ==
    /\ res.op = "get" /\ res.status = 200
    /\ now = VIBE_LIFESPAN_MS
    /\ ExpiredIds = {}
    /\ \E k \in 1..Len(res.vibes[1].parentVibeIds) :
           res.vibes[1].parentVibeIds[k] \notin StoredIds

\* C35: at every moment the stored Vibes split in two: those getAllActiveVibes
\* returns (expiresAt > now) and those deleteExpiredVibes would remove
\* (expiresAt <= now); none is in both, none in neither, and a Vibe whose
\* expiresAt is now is on the expired side.
C35_ActiveAndSweepablePartitionTheStore ==
    LET active == Range(getAllActiveVibes(vibes, now))
        kept == Range(deleteExpiredVibes(vibes, now))
    IN  \A i \in 1..Len(vibes) :
            /\ (vibes[i] \in active) # (vibes[i] \notin kept)
            /\ (vibes[i] \in active) = (vibes[i].expiresAt > now)
            /\ vibes[i].expiresAt = now => (vibes[i] \notin active /\ vibes[i] \notin kept)

\* C35 witness: at the tick a Vibe expires the store holds it next to a Vibe
\* that has two ticks left.
C35_Witness ==
    /\ \E i \in 1..Len(vibes) : vibes[i].expiresAt = now
    /\ \E i \in 1..Len(vibes) : vibes[i].expiresAt > now
    /\ res = idle

\* C36: every stored woven Vibe has a higher generation than each of its parents
\* that is still stored, and is not among its own parents; so the parent
\* relation over the store has no cycle, sweeps or not.
C36_GenerationRisesFromParentToChild ==
    \A i \in 1..Len(vibes) :
        \A k \in 1..Len(vibes[i].parentVibeIds) :
            LET parent == MapGet(vibes, vibes[i].parentVibeIds[k])
            IN  /\ vibes[i].parentVibeIds[k] # vibes[i].id
                /\ parent # undefined => vibes[i].generation > parent.generation

\* C36 witness: a Vibe of generation 2 whose generation-1 parent is stored and
\* whose other parent has been swept.
C36_Witness ==
    \E i \in 1..Len(vibes) :
        /\ vibes[i].generation = 2
        /\ \E k \in 1..Len(vibes[i].parentVibeIds) :
               vibes[i].parentVibeIds[k] \notin StoredIds
        /\ \E k \in 1..Len(vibes[i].parentVibeIds) :
               LET parent == MapGet(vibes, vibes[i].parentVibeIds[k])
               IN  parent # undefined /\ parent.generation = 1

\* C37: for every limit >= 1 the personal stream carries min(limit, number of
\* active Vibes) Vibes, all active and no two alike: the random part fills what
\* the popular part leaves.  With limit 1 the popular part is empty, so the one
\* id returned can be that of any active Vibe, not only the top-scoring one.
C37_PersonalStreamIsFilledUpToLimit ==
    [][/\ \A limit \in 1..MaxLimit :
              (res = idle /\ handleGetStreamVibes("personal", limit)) =>
                  /\ Len(res'.vibes) = Min(limit, Cardinality(ActiveIds))
                  /\ \A k \in 1..Len(res'.vibes) : res'.vibes[k].id \in ActiveIds
                  /\ NoRepeats(res'.vibes)
       /\ res = idle =>
              getStreamVibes(vibes, "personal", 1, now) =
                  IF ActiveIds = {} THEN {<<>>} ELSE {<<id>> : id \in ActiveIds}]_vars

\* C37 witness: a personal stream of one Vibe that is not the top scorer among
\* the active Vibes.
C37_Witness ==
    /\ res.op = "personal" /\ res.status = 200
    /\ Len(res.vibes) = 1
    /\ \E id \in ActiveIds : FLess(res.vibes[1].resonanceScore, ScoreOf(vibes, id))

\* C38: a weave of one to three ids that are all stored succeeds also when an id
\* comes more than once: parentVibeIds records the ids as given, repeats
\* included, and the repeated parent counts once per occurrence in the means of
\* intensity, volume and haptic intensity.
C38_RepeatedParentCountsPerOccurrence ==
    (/\ res.op = "weaveVibes"
     /\ Len(res.arg) \in 1..3
     /\ ~NoRepeats(res.arg)
     /\ \A k \in 1..Len(res.arg) : MapGet(res.before, res.arg[k]) # undefined) =>
        /\ res.result # null
        /\ res.result.parentVibeIds = res.arg
        /\ MapGet(vibes, res.result.id) = res.result
        /\ res.result.visual.intensity =
               MeanLevel([k \in 1..Len(res.arg) |-> WovenFrom[k].visual.intensity])
        /\ res.result.audio.volume =
               MeanLevel([k \in 1..Len(res.arg) |-> WovenFrom[k].audio.volume])
        /\ ParentHaptics # <<>> =>
               res.result.haptic.intensity =
                   MeanLevel([k \in 1..Len(ParentHaptics) |-> ParentHaptics[k].intensity])

\* C38 witness: the weave [A, A, B] with intensities 60 for A and 85 for B gives
\* 68, the rounded mean of 60, 60 and 85, where A and B once each give 73.
C38_Witness ==
    /\ Wove /\ Len(res.arg) = 3
    /\ res.arg[1] = res.arg[2] /\ res.arg[3] # res.arg[1]
    /\ WovenFrom[1].visual.intensity = FromInt(60)
    /\ WovenFrom[3].visual.intensity = FromInt(85)
    /\ res.result.visual.intensity = FromInt(68)
    /\ res.result.parentVibeIds = res.arg

\* C32: the periodic sweep is cancelled at shutdown: once the owner of the store
\* is done with it, the timer's deleteExpiredVibes callback runs no more.
C32_NoSweepAfterShutdown ==
    [][res.ownerReturned => res'.timerRuns = res.timerRuns]_vars

ServiceNames == [k \in 1..Len(Services) |-> Services[k].name]

\* C39: the servers are launched in the order Port Registry, Service
\* Orchestrator, Launch Server, Dashboard Server; the Orchestrator is launched
\* only after the Port Registry answered its health check (and the Launch Server
\* only after the Orchestrator answered); when one of the four ports is in use
\* the script has exit status 1 and has launched only the servers before that
\* one, and when the Port Registry or the Orchestrator did not answer within the
\* wait limit it has exit status 1 and has launched nothing after it.
C39_StartupOrderAndFailFast ==
    res.op = "start-enhanced.sh" =>
        /\ \E n \in 0..Len(Services) : res.started = SubSeq(ServiceNames, 1, n)
        /\ \A k \in 2..Len(res.started) :
               Services[k - 1].waitedFor => Services[k - 1].name \in res.answered
        /\ \A k \in 1..Len(Services) :
               (res.pc = "start" /\ res.k = k /\ ~is_port_free(Services[k].port))
                   => Len(res.started) = k - 1
        /\ res.inUse # 0 =>
               (res.exitCode = <<1>> /\ Len(res.started) = res.inUse - 1)
        /\ res.gaveUp # 0 =>
               /\ res.exitCode = <<1>> /\ Len(res.started) = res.gaveUp
               /\ res.count = timeout
               /\ res.gaveUp \in {1, 2}
        /\ res.exitCode # <<>> => res.pc = "exited"

\* C39 witness: the Port Registry answered, the Orchestrator was launched and
\* did not answer in thirty tries: exit status 1 with two servers launched.
C39_Witness ==
    /\ res.op = "start-enhanced.sh"
    /\ res.exitCode = <<1>> /\ res.gaveUp = 2
    /\ res.started = <<"Port Registry", "Service Orchestrator">>
    /\ res.answered = {"Port Registry"}

ProjectsJsonUrls == {url \in Urls : includesProjectsJson(url)}

FreshResponses ==
    {HttpResponse(url, status, n) : url \in ProjectsJsonUrls, status \in {200, 500}, n \in 1..MaxEvents}

Answering == res.op = "service worker" /\ res.pc # "respond" /\ res'.pc = "respond"

\* C40: a fetch of /projects.json is always answered.  The network is tried
\* first; when fetch resolves, the answer is the response just received and a
\* copy of it is handed to cache.put under the request, which stores it in the
\* cache in its own time; when fetch rejects, the
\* answer is the cached /projects.json if there is one and an empty JSON array
\* if there is none; and every such request gets its answer.
C40_ProjectsJsonIsAlwaysAnswered ==
    /\ [][(res.op = "service worker" /\ res.pc = "idle" /\ res'.pc # "idle"
              /\ includesProjectsJson(res'.url)) => res'.pc = "fetch"]_vars
    /\ [][(Answering /\ includesProjectsJson(res.url)) =>
              /\ res'.answer # undefined
              /\ res.pc = "fetch" =>
                     /\ res'.answer \in FreshResponses
                     /\ res'.answer.body = <<res.events>> /\ res'.answer.url = res.url
                     /\ [key |-> res.url, response |-> res'.answer] \in res'.putting
              /\ res.pc # "fetch" =>
                     /\ res.pc = "match projects"
                     /\ res.cache["/projects.json"] # undefined =>
                            res'.answer = res.cache["/projects.json"]
                     /\ res.cache["/projects.json"] = undefined =>
                            (res'.answer.body = <<>> /\ res'.answer.status = 200)]_vars
    /\ \A url \in ProjectsJsonUrls :
           (res.op = "service worker" /\ res.pc = "fetch" /\ res.url = url)
               ~> (res.pc = "idle" /\ res.url = url /\ res.answer # undefined)
    /\ [][res.op = "service worker" =>
              \A put \in res.putting \ res'.putting : res'.cache[put.key] = put.response]_vars
    /\ \A fresh \in FreshResponses :
           (res.op = "service worker" /\ [key |-> fresh.url, response |-> fresh] \in res.putting)
               ~> (res.op = "service worker"
                      /\ [key |-> fresh.url, response |-> fresh] \notin res.putting)

\* C40 witness: the network failed, the cache had no /projects.json, and the
\* page was answered with the empty array.
C40_Witness ==
    /\ res.op = "service worker"
    /\ res.pc = "idle" /\ res.url = "/projects.json"
    /\ res.cache["/projects.json"] = undefined
    /\ res.putting = {}
    /\ res.answer = EmptyArray

====
